---------------------------- MODULE Spec2Model ----------------------------
(***************************************************************************)
(* Nova: the editing core of a terminal text editor.                       *)
(*   src/src/buffer/buffer.rs  GapBuffer (byte store + line cache), Buffer *)
(*   src/src/main.rs           UndoHistory, EditorMode, Editor::handle_key *)
(* Text is modelled as sequences of bytes (integers); a Rust String is a   *)
(* byte sequence that is valid UTF-8, a char is the byte sequence of its   *)
(* UTF-8 encoding.                                                         *)
(***************************************************************************)
EXTENDS Integers, Sequences, FiniteSets, TLC

(* ------------------------------ bounds -------------------------------- *)
\* longest content of the byte store driven directly (SpecGap)
MaxGapLen == 4
\* longest content of the Buffer driven directly (SpecBuf)
MaxBufLen == 3
\* largest offset / length / line / column argument (SpecGap, SpecBuf)
MaxArg == 4
\* longest document of the Editor (Spec), in bytes
MaxLen == 3
\* longest edit log of the Editor (Spec)
MaxOps == 1
\* longest edit log of the UndoHistory driven directly (SpecUndo)
MaxLog == 2
\* SpecCap: undone operations kept below the top of a full log, and pushes
\* made once the log is full
MaxBack == 2
MaxEvict == 2
\* SpecModes: characters typed into a dialog, and characters of the
\* proposed file name deleted from it
MaxTyped == 1
MaxPop == 1

(* ------------------------------ bytes --------------------------------- *)
NL == 10
TAB == 9
SP == 32
\* the ASCII letters and signs the model types or binds
Ascii == [a |-> 97, b |-> 98, c |-> 99, d |-> 100, f |-> 102, g |-> 103,
          h |-> 104, k |-> 107, o |-> 111, q |-> 113, r |-> 114, s |-> 115,
          u |-> 117, y |-> 121, z |-> 122, backslash |-> 92, dot |-> 46,
          one |-> 49, t |-> 116, x |-> 120]
LetterA == Ascii.a
LetterB == Ascii.b

(* ----------------------------- helpers -------------------------------- *)
Min(a, b) == IF a < b THEN a ELSE b
Max(a, b) == IF a > b THEN a ELSE b
\* usize::saturating_sub
SatSub(a, b) == IF a > b THEN a - b ELSE 0
\* s[..n] and s[n..] of a slice, 0-based bounds as in Rust
Take(s, n) == SubSeq(s, 1, n)
Drop(s, n) == SubSeq(s, n + 1, Len(s))
\* s[a..b]
Slice(s, a, b) == SubSeq(s, a + 1, b)
\* F applied to x: a local value that is computed once and named in F
Bind(x, F(_)) == F(x)
\* all sequences over S of length at most n
SeqsUpTo(S, n) == UNION {[1..k -> S] : k \in 0..n}

(* ---------------------------- GapBuffer ------------------------------- *)
\* the offsets base + i + 1 of the bytes s[i] = '\n' (i 0-based), in order
NewlineEnds(s, base) ==
    LET idx == [i \in 1..Len(s) |-> i]
        hit == SelectSeq(idx, LAMBDA i : s[i] = NL)
    IN  [k \in 1..Len(hit) |-> base + hit[k]]

GapNew == [before |-> <<>>, after |-> <<>>, line_offsets |-> <<0>>]

GapLen(g) == Len(g.before) + Len(g.after)

\* a line cache that scans only the bytes before the gap
build_cache_before_only(g) ==
    [g EXCEPT !.line_offsets =
        <<0>> \o NewlineEnds(g.before, 0)
              \o <<Len(g.before) + Len(g.after)>>]

\* a line cache that forgets to offset the bytes after the gap
build_cache_after_unshifted(g) ==
    [g EXCEPT !.line_offsets =
        <<0>> \o NewlineEnds(g.before, 0)
              \o NewlineEnds(g.after, 0)
              \o <<Len(g.before) + Len(g.after)>>]

build_cache(g) ==
    [g EXCEPT !.line_offsets =
        <<0>> \o NewlineEnds(g.before, 0)
              \o NewlineEnds(g.after, Len(g.before))
              \o <<Len(g.before) + Len(g.after)>>]

from_string(s) == build_cache([GapNew EXCEPT !.before = s])

\* move_gap as written: the bytes that cross the gap are appended to the END
\* of `after` (pos < gap_pos), resp. put in FRONT of `before` with the rest
\* of `after` cleared (pos > gap_pos).
move_gap(g, pos0) ==
    LET pos == Min(pos0, GapLen(g))
        gap_pos == Len(g.before)
    IN  IF pos < gap_pos
        THEN [g EXCEPT !.after = g.after \o Drop(g.before, pos),
                       !.before = Take(g.before, pos)]
        ELSE IF pos > gap_pos
        THEN [g EXCEPT !.before = Take(g.after, pos - gap_pos) \o g.before,
                       !.after = <<>>]
        ELSE g

GapInsert(g, pos, text) ==
    LET m == move_gap(g, pos)
    IN  build_cache([m EXCEPT !.before = m.before \o text])

GapDelete(g, pos, len) ==
    LET m == move_gap(g, pos)
        del_len == Min(len, Len(m.after))
    IN  build_cache([m EXCEPT !.after = Drop(m.after, del_len)])


(* ------------------------- String (UTF-8) ----------------------------- *)
\* U+FFFD REPLACEMENT CHARACTER, as UTF-8
REPL == <<239, 191, 189>>
IsCont(b) == b \in 128..191
\* lead bytes of 2- and 3-byte sequences whose continuation bytes are
\* unrestricted (0xE0 and 0xED, and the 4-byte leads, never occur here)
Lead2 == 194..223
Lead3 == (225..236) \cup {238, 239}

\* String::from_utf8_lossy, as the sequence of decoded chars: each maximal
\* invalid prefix becomes one U+FFFD
RECURSIVE DecodeChars(_)
DecodeChars(s) ==
    IF s = <<>> THEN <<>>
    ELSE LET b == s[1]
             n == Len(s)
             step ==
                 IF b < 128 THEN [ch |-> <<b>>, used |-> 1]
                 ELSE IF b \in Lead2
                 THEN IF n >= 2 /\ IsCont(s[2])
                      THEN [ch |-> <<b, s[2]>>, used |-> 2]
                      ELSE [ch |-> REPL, used |-> 1]
                 ELSE IF b \in Lead3
                 THEN IF n >= 2 /\ IsCont(s[2])
                      THEN IF n >= 3 /\ IsCont(s[3])
                           THEN [ch |-> <<b, s[2], s[3]>>, used |-> 3]
                           ELSE [ch |-> REPL, used |-> 2]
                      ELSE [ch |-> REPL, used |-> 1]
                 ELSE [ch |-> REPL, used |-> 1]
         IN  <<step.ch>> \o DecodeChars(Drop(s, step.used))

RECURSIVE Flatten(_)
Flatten(chars) ==
    IF chars = <<>> THEN <<>> ELSE chars[1] \o Flatten(Tail(chars))

FromUtf8Lossy(s) == Flatten(DecodeChars(s))

\* str::chars of a String
Chars(s) == DecodeChars(s)

\* str::is_char_boundary
IsCharBoundary(s, i) ==
    IF i = 0 \/ i = Len(s) THEN TRUE
    ELSE IF i > Len(s) THEN FALSE
    ELSE ~IsCont(s[i + 1])

None == <<>>
Some(x) == <<x>>

(* ------------------------ GapBuffer (reads) --------------------------- *)
to_string(g) == FromUtf8Lossy(g.before) \o FromUtf8Lossy(g.after)

get_range(g, start0, end0) ==
    LET total == GapLen(g)
        start == Min(start0, total)
        end == Min(end0, total)
        before_end == Len(g.before)
    IN  IF start >= end THEN <<>>
        ELSE IF start < before_end /\ end <= before_end
        THEN FromUtf8Lossy(Slice(g.before, start, end))
        ELSE IF start >= before_end
        THEN FromUtf8Lossy(Slice(g.after, start - before_end,
                                 Min(end - before_end, Len(g.after))))
        ELSE FromUtf8Lossy(Drop(g.before, start))
             \o FromUtf8Lossy(Take(g.after, Min(end - before_end, Len(g.after))))

num_lines(g) == Max(Len(g.line_offsets), 1) - 1

get_line(g, line_num) ==
    LET offs == g.line_offsets
        blen == Len(g.before)
    IN  IF Len(offs) <= 1 \/ line_num >= Len(offs) - 1 THEN <<>>
        ELSE
        LET start == offs[line_num + 1]
            end == offs[line_num + 2]
        IN  IF end = 0 THEN <<>>
            ELSE IF start < blen
            THEN IF end <= blen
                 THEN LET actual_end ==
                              IF end > 0 /\ g.before[end] = NL THEN end - 1 ELSE end
                      IN  IF actual_end > start
                          THEN FromUtf8Lossy(Slice(g.before, start, actual_end))
                          ELSE <<>>
                 ELSE LET actual_before_end ==
                              IF blen > start /\ g.before[blen] = NL
                              THEN blen - 1 ELSE blen
                          after_end == Min(end - blen, Len(g.after))
                          actual_after_end ==
                              IF after_end > 0 /\ g.after[after_end] = NL
                              THEN after_end - 1 ELSE after_end
                      IN  FromUtf8Lossy(Slice(g.before, start, actual_before_end)
                                        \o Take(g.after, actual_after_end))
            ELSE LET after_start == start - blen
                     after_end == Min(end - blen, Len(g.after))
                     actual_end ==
                         IF after_end > after_start /\ g.after[after_end] = NL
                         THEN after_end - 1 ELSE after_end
                 IN  IF after_start < Len(g.after) /\ actual_end > after_start
                     THEN FromUtf8Lossy(Slice(g.after, after_start, actual_end))
                     ELSE <<>>

(* ------------------------------ Buffer -------------------------------- *)
BufferNew ==
    LET text == GapInsert(GapNew, 0, <<NL>>)
    IN  [text |-> text, path |-> None, is_modified |-> FALSE,
         language |-> "plaintext", line_offsets |-> text.line_offsets]

\* Buffer::from_file once the file has been read: content is its text
from_file(path, content0) ==
    LET content == IF content0 # <<>> /\ content0[Len(content0)] = NL
                   THEN content0 ELSE content0 \o <<NL>>
        text == from_string(content)
    IN  [text |-> text, path |-> Some(path), is_modified |-> FALSE,
         language |-> "plaintext", line_offsets |-> text.line_offsets]

for_new_file(path) ==
    LET text == GapInsert(GapNew, 0, <<NL>>)
    IN  [text |-> text, path |-> Some(path), is_modified |-> FALSE,
         language |-> "plaintext", line_offsets |-> text.line_offsets]

BufInsert(b, pos, text) ==
    LET t == GapInsert(b.text, pos, text)
    IN  [b EXCEPT !.text = t, !.line_offsets = t.line_offsets,
                  !.is_modified = TRUE]

BufDelete(b, pos, len) ==
    LET t == GapDelete(b.text, pos, len)
    IN  [b EXCEPT !.text = t, !.line_offsets = t.line_offsets,
                  !.is_modified = TRUE]

BufGetLine(b, line) == get_line(b.text, line)

BufNumLines(b) == num_lines(b.text)

line_len(b, line) ==
    LET offs == b.line_offsets
    IN  IF line >= Len(offs) THEN 0
        ELSE LET start == offs[line + 1]
                 end == IF line + 1 < Len(offs) THEN offs[line + 2]
                        ELSE GapLen(b.text)
             IN  SatSub(end, start)

total_len(b) == GapLen(b.text)

get_cursor_pos(b, line, col0) ==
    LET offs == b.line_offsets
    IN  IF line >= Len(offs) THEN GapLen(b.text)
        ELSE LET offset == offs[line + 1]
                 llen == IF line + 1 < Len(offs)
                         THEN SatSub(offs[line + 2], offset) ELSE 0
             IN  offset + Min(col0, llen)

insert_newline(b, line, col) ==
    LET pos == get_cursor_pos(b, line, col)
        t == GapInsert(b.text, pos, <<NL>>)
    IN  [b EXCEPT !.text = t, !.line_offsets = t.line_offsets,
                  !.is_modified = TRUE]

\* <<line, col>>
get_line_col(b, pos0) ==
    LET offs == b.line_offsets
        n == Len(offs)
        pos == Min(pos0, GapLen(b.text))
        hits == {i \in 0..(n - 2) : pos < offs[i + 2]}
    IN  IF hits # {}
        THEN LET i == CHOOSE x \in hits : \A y \in hits : x <= y
             IN  <<i, pos - offs[i + 1]>>
        ELSE IF n > 0
        THEN <<SatSub(n, 1), SatSub(pos, offs[n])>>
        ELSE <<0, pos>>

\* str::find: the least byte index at which pat occurs in s, or -1
StrFind(s, pat) ==
    LET at == {i \in 0..(Len(s) - Len(pat)) : Slice(s, i, i + Len(pat)) = pat}
    IN  IF at = {} THEN -1 ELSE CHOOSE x \in at : \A y \in at : x <= y

\* str::matches(pat).count() and str::replace(pat, to): non-overlapping
\* occurrences from the left; the empty pattern matches at every char boundary
RECURSIVE StrCount(_, _)
StrCount(s, pat) ==
    IF pat = <<>> THEN Len(Chars(s)) + 1
    ELSE IF Len(s) < Len(pat) THEN 0
    ELSE IF Take(s, Len(pat)) = pat THEN 1 + StrCount(Drop(s, Len(pat)), pat)
    ELSE StrCount(Tail(s), pat)

RECURSIVE StrReplaceNonEmpty(_, _, _)
StrReplaceNonEmpty(s, pat, to) ==
    IF Len(s) < Len(pat) THEN s
    ELSE IF Take(s, Len(pat)) = pat
    THEN to \o StrReplaceNonEmpty(Drop(s, Len(pat)), pat, to)
    ELSE <<s[1]>> \o StrReplaceNonEmpty(Tail(s), pat, to)

RECURSIVE Interleave(_, _)
Interleave(chars, to) ==
    IF chars = <<>> THEN to
    ELSE to \o chars[1] \o Interleave(Tail(chars), to)

StrReplace(s, pat, to) ==
    IF pat = <<>> THEN Interleave(Chars(s), to)
    ELSE StrReplaceNonEmpty(s, pat, to)

\* Buffer::find: [panic, found, line, col]; the slices text[search_start..]
\* and text[..search_start] panic off a char boundary or past the end
FindNone == [panic |-> FALSE, found |-> FALSE, line |-> 0, col |-> 0]
FindHit(lc) == [panic |-> FALSE, found |-> TRUE, line |-> lc[1], col |-> lc[2]]

find(b, query, from_line, from_col) ==
    Bind(to_string(b.text), LAMBDA text :
    Bind(IF from_line < Len(b.line_offsets)
         THEN b.line_offsets[from_line + 1]
              + Min(from_col, Len(BufGetLine(b, from_line)))
         ELSE 0, LAMBDA search_start :
        IF query = <<>> THEN FindNone
        ELSE IF ~IsCharBoundary(text, search_start)
        THEN [FindNone EXCEPT !.panic = TRUE]
        ELSE Bind(StrFind(Drop(text, search_start), query), LAMBDA p1 :
                 IF p1 >= 0 THEN FindHit(get_line_col(b, search_start + p1))
                 ELSE IF search_start > 0
                 THEN Bind(StrFind(Take(text, search_start), query), LAMBDA p2 :
                          IF p2 >= 0 THEN FindHit(get_line_col(b, p2))
                          ELSE FindNone)
                 ELSE FindNone)))

\* a replace that stops after the first occurrence (str::replacen(.., 1))
replace_first_only(b, old, new) ==
    Bind(to_string(b.text), LAMBDA text :
    Bind(StrFind(text, old), LAMBDA p :
    Bind(IF p = -1 THEN text
         ELSE Take(text, p) \o new \o Drop(text, p + Len(old)), LAMBDA new_text :
    Bind(from_string(new_text), LAMBDA t0 :
    Bind(IF new_text # <<>> /\ new_text[Len(new_text)] = NL
         THEN t0 ELSE GapInsert(t0, GapLen(t0), <<NL>>), LAMBDA t1 :
        [buffer |-> [b EXCEPT !.text = t1, !.line_offsets = t1.line_offsets,
                              !.is_modified = TRUE],
         count |-> StrCount(text, old)])))))

\* Buffer::replace: [buffer, count]
replace(b, old, new) ==
    Bind(to_string(b.text), LAMBDA text :
    Bind(StrReplace(text, old, new), LAMBDA new_text :
    Bind(from_string(new_text), LAMBDA t0 :
    Bind(IF new_text # <<>> /\ new_text[Len(new_text)] = NL
         THEN t0 ELSE GapInsert(t0, GapLen(t0), <<NL>>), LAMBDA t1 :
        [buffer |-> [b EXCEPT !.text = t1, !.line_offsets = t1.line_offsets,
                              !.is_modified = TRUE],
         count |-> StrCount(text, old)]))))

(* ---------------------------- UndoHistory ----------------------------- *)
\* EditOp::Insert / EditOp::Delete (EditOp::Replace is never constructed)
OpInsert(pos, text) == [kind |-> "Insert", pos |-> pos, text |-> text]
OpDelete(pos, text) == [kind |-> "Delete", pos |-> pos, text |-> text]

UndoCap == 1000

UndoNew == [ops |-> <<>>, pos |-> 0]

\* a push that keeps the operations past the cursor index
push_keep_tail(u, op) ==
    LET ops1 == Append(u.ops, op)
        pos1 == u.pos + 1
    IN  IF Len(ops1) > UndoCap
        THEN [ops |-> Tail(ops1), pos |-> pos1 - 1]
        ELSE [ops |-> ops1, pos |-> pos1]

\* a push that never evicts the oldest operation
push_no_evict(u, op) ==
    [ops |-> Append(Take(u.ops, u.pos), op), pos |-> u.pos + 1]

push(u, op) ==
    LET ops1 == Append(Take(u.ops, u.pos), op)
        pos1 == u.pos + 1
    IN  IF Len(ops1) > UndoCap
        THEN [ops |-> Tail(ops1), pos |-> pos1 - 1]
        ELSE [ops |-> ops1, pos |-> pos1]

\* UndoHistory::undo / redo: [undo, buffer, ok]
undo(u, b) ==
    IF u.pos = 0 THEN [undo |-> u, buffer |-> b, ok |-> FALSE]
    ELSE LET pos1 == u.pos - 1
             op == u.ops[pos1 + 1]
         IN  [undo |-> [u EXCEPT !.pos = pos1],
              buffer |-> IF op.kind = "Insert"
                         THEN BufDelete(b, op.pos, Len(op.text))
                         ELSE BufInsert(b, op.pos, op.text),
              ok |-> TRUE]

redo(u, b) ==
    IF u.pos >= Len(u.ops) THEN [undo |-> u, buffer |-> b, ok |-> FALSE]
    ELSE LET op == u.ops[u.pos + 1]
         IN  [undo |-> [u EXCEPT !.pos = u.pos + 1],
              buffer |-> IF op.kind = "Insert"
                         THEN BufInsert(b, op.pos, op.text)
                         ELSE BufDelete(b, op.pos, Len(op.text)),
              ok |-> TRUE]

clear(u) == [ops |-> <<>>, pos |-> 0]

(* ------------------------------ Editor -------------------------------- *)
\* usize::MAX, the value of 0 - 1 in a build without overflow checks; it
\* stands here as the largest integer TLC represents
UsizeMax == 2147483647
\* a - b on usize where the build wraps
WrapSub(a, b) == IF a >= b THEN a - b ELSE UsizeMax - (b - a) + 1

ModeNormal == [tag |-> "Normal"]
ModeSearch(q, cs, bw) ==
    [tag |-> "Search", query |-> q, case_sensitive |-> cs, backward |-> bw]
ModeReplace(se, re, cs, all, conf) ==
    [tag |-> "Replace", search |-> se, replace |-> re, case_sensitive |-> cs,
     all |-> all, confirmed |-> conf]
ModeGoToLine == [tag |-> "GoToLine"]
ModeConfirm(t, m, o, sel) ==
    [tag |-> "Confirm", title |-> t, message |-> m, options |-> o, selected |-> sel]
ModeInput(t, i, h) == [tag |-> "Input", title |-> t, input |-> i, history |-> h]
ModeHelp == [tag |-> "Help"]

\* "untitled.txt"
Untitled == <<117, 110, 116, 105, 116, 108, 101, 100, 46, 116, 120, 116>>
SaveAsDialog == ModeInput("Save As", Untitled, <<>>)

ActSaveAndQuit == [tag |-> "SaveAndQuit"]
ActQuitWithoutSave == [tag |-> "QuitWithoutSave"]
ActSaveAs(f) == [tag |-> "SaveAs", filename |-> f]
ActReplaceAll(se, re) == [tag |-> "ReplaceAll", search |-> se, replace |-> re]

\* Editor::new; the fields that only feed rendering (theme, show_help,
\* show_line_numbers, word_wrap, blink, width, tip) are left out.
\* crashed: the process has panicked.  wrapped: an unsigned subtraction
\* has wrapped, so the build is one without overflow checks.  ovf: an
\* unsigned subtraction went below zero during the key event being handled
\* (handle_key settles it into crashed or wrapped before it returns).
EditorNew(buffer, settings, height) ==
    [buffer |-> buffer, cursor_line |-> 0, cursor_col |-> 0,
     scroll_offset |-> 0, settings |-> settings, should_quit |-> FALSE,
     undo |-> UndoNew, mode |-> ModeNormal, pending_action |-> None,
     quit_after_save |-> FALSE, screen_height |-> height,
     crashed |-> FALSE, wrapped |-> FALSE, ovf |-> FALSE]

\* update_scroll; view_height - 1 underflows when view_height = 0
update_scroll_overflows(e) ==
    LET view_height == SatSub(e.screen_height, 3)
        so1 == Min(e.scroll_offset, e.cursor_line)
    IN  e.cursor_line >= so1 + view_height /\ view_height = 0

\* an update_scroll without its final clamp to max_scroll
update_scroll_unclamped(e) ==
    LET view_height == SatSub(e.screen_height, 3)
        so1 == IF e.cursor_line < e.scroll_offset THEN e.cursor_line
               ELSE e.scroll_offset
        so2 == IF e.cursor_line >= so1 + view_height
               THEN e.cursor_line
               ELSE so1
    IN  [e EXCEPT !.scroll_offset = so2,
                  !.ovf = @ \/ update_scroll_overflows(e)]

update_scroll(e) ==
    LET view_height == SatSub(e.screen_height, 3)
        so1 == IF e.cursor_line < e.scroll_offset THEN e.cursor_line
               ELSE e.scroll_offset
        so2 == IF e.cursor_line >= so1 + view_height
               THEN SatSub(e.cursor_line, WrapSub(view_height, 1))
               ELSE so1
        max_scroll == SatSub(BufNumLines(e.buffer), view_height)
    IN  [e EXCEPT !.scroll_offset = IF so2 > max_scroll THEN max_scroll ELSE so2,
                  !.ovf = @ \/ update_scroll_overflows(e)]

clamp_cursor(e) ==
    LET last == SatSub(BufNumLines(e.buffer), 1)
        line == Min(e.cursor_line, last)
    IN  [e EXCEPT !.cursor_line = line,
                  !.cursor_col = Min(e.cursor_col, line_len(e.buffer, line))]

\* the leading run of ' ' and '\t' of a line
RECURSIVE LeadingBlanks(_)
LeadingBlanks(chars) ==
    IF chars # <<>> /\ chars[1] \in {<<SP>>, <<TAB>>}
    THEN chars[1] \o LeadingBlanks(Tail(chars))
    ELSE <<>>

get_indent(e, line) == LeadingBlanks(Chars(BufGetLine(e.buffer, line)))

\* Buffer::save / save_as once the write has succeeded or failed;
\* trim_end_matches('\n') strips every trailing terminator
RECURSIVE TrimEndNL(_)
TrimEndNL(s) ==
    IF s # <<>> /\ s[Len(s)] = NL THEN TrimEndNL(Take(s, Len(s) - 1)) ELSE s

\* Path::extension of a file name: the bytes after its last '.', none when
\* there is no '.' or the only one leads the name
Extension(path) ==
    LET dots == {i \in 2..Len(path) : path[i] = Ascii.dot}
    IN  IF dots = {} THEN <<>>
        ELSE Drop(path, CHOOSE i \in dots : \A j \in dots : j <= i)

\* detect_language, on the extensions that file names of the model can carry
detect_language(path) ==
    LET ext == Extension(path)
    IN  IF ext = <<Ascii.c>> \/ ext = <<Ascii.h>> THEN "c"
        ELSE IF ext = <<109, 100>> THEN "markdown"
        ELSE "plaintext"

\* a save that clears the modified flag whether or not the write succeeded
save_clears_always(b, write_ok) ==
    IF b.path # None THEN [b EXCEPT !.is_modified = FALSE] ELSE b

save(b, write_ok) ==
    IF b.path # None /\ write_ok THEN [b EXCEPT !.is_modified = FALSE] ELSE b

save_as(b, path, write_ok) ==
    IF write_ok
    THEN [b EXCEPT !.path = Some(path), !.language = detect_language(path),
                   !.is_modified = FALSE]
    ELSE b

(* ----------------------- Editor::handle_normal ------------------------ *)
\* a key press: code is "Char" (ch its char, ctrl whether CONTROL is held;
\* SHIFT is part of the char) or the name of a key without a char
KeyChar(c) == [code |-> "Char", ch |-> c, ctrl |-> FALSE]
KeyCtrl(b) == [code |-> "Char", ch |-> <<b>>, ctrl |-> TRUE]
KeyNamed(n) == [code |-> n, ch |-> <<>>, ctrl |-> FALSE]
IsCtrl(k, b) == k.code = "Char" /\ k.ctrl /\ k.ch = <<b>>

\* char::is_control, on the chars of the model
IsControlChar(c) == Len(c) = 1 /\ (c[1] < 32 \/ c[1] = 127)

NormalCtrlQ(e) ==
    IF e.buffer.path = None
    THEN [e EXCEPT !.quit_after_save = TRUE, !.mode = SaveAsDialog]
    ELSE IF e.buffer.is_modified
    THEN [e EXCEPT !.mode = ModeConfirm("Quit", "Save changes?",
                                        <<"Yes", "No", "Cancel">>, 0)]
    ELSE [e EXCEPT !.should_quit = TRUE]

NormalCtrlS(e, env) ==
    IF e.buffer.path = None
    THEN [e EXCEPT !.mode = SaveAsDialog]
    ELSE [e EXCEPT !.buffer = save(e.buffer, env.write_ok)]

\* open_file: env.open is the first listed file with a known extension that
\* could be read, as <<content>>, or None when there is no such file
open_file(e, env) ==
    IF env.open = None THEN e
    ELSE [e EXCEPT !.buffer = from_file("f.txt", env.open[1]),
                   !.cursor_line = 0, !.cursor_col = 0, !.scroll_offset = 0,
                   !.undo = clear(e.undo)]

NormalUndoRedo(e, r) ==
    Bind(get_line_col(r.buffer, 0), LAMBDA lc :
        update_scroll(clamp_cursor(
            [e EXCEPT !.undo = r.undo, !.buffer = r.buffer,
                      !.cursor_line = IF r.ok THEN lc[1] ELSE @,
                      !.cursor_col = IF r.ok THEN lc[2] ELSE @])))

NormalCtrlZ(e) == NormalUndoRedo(e, undo(e.undo, e.buffer))
NormalCtrlY(e) == NormalUndoRedo(e, redo(e.undo, e.buffer))

\* Up / Down land on a line: a column inside its indent moves to its end
IntoIndent(e, line) ==
    Bind(get_indent(e, line), LAMBDA indent :
        [e EXCEPT !.cursor_line = line,
                  !.cursor_col = IF e.cursor_col < Len(indent) /\ indent # <<>>
                                 THEN Len(indent) ELSE e.cursor_col])

NormalUp(e) ==
    IF e.cursor_line > 0 THEN IntoIndent(e, e.cursor_line - 1) ELSE e

NormalDown(e) ==
    IF e.cursor_line < BufNumLines(e.buffer) - 1
    THEN IntoIndent(e, e.cursor_line + 1) ELSE e

NormalLeft(e) ==
    IF e.cursor_col > 0 THEN [e EXCEPT !.cursor_col = e.cursor_col - 1]
    ELSE IF e.cursor_line > 0
    THEN [e EXCEPT !.cursor_line = e.cursor_line - 1,
                   !.cursor_col = line_len(e.buffer, e.cursor_line - 1)]
    ELSE e

NormalRight(e) ==
    IF e.cursor_col < line_len(e.buffer, e.cursor_line)
    THEN [e EXCEPT !.cursor_col = e.cursor_col + 1]
    ELSE IF e.cursor_line < BufNumLines(e.buffer) - 1
    THEN [e EXCEPT !.cursor_line = e.cursor_line + 1, !.cursor_col = 0]
    ELSE e

NormalHome(e) ==
    Bind(get_indent(e, e.cursor_line), LAMBDA indent :
        [e EXCEPT !.cursor_col = IF e.cursor_col > Len(indent)
                                 THEN Len(indent) ELSE 0])

NormalEnd(e) == [e EXCEPT !.cursor_col = line_len(e.buffer, e.cursor_line)]

NormalPageUp(e) ==
    [e EXCEPT !.cursor_line = SatSub(e.cursor_line, WrapSub(e.screen_height, 2)),
              !.ovf = @ \/ e.screen_height < 2]

NormalPageDown(e) ==
    LET max_line == BufNumLines(e.buffer) - 1
    IN  [e EXCEPT !.cursor_line =
                      Min(WrapSub(e.cursor_line + e.screen_height, 2), max_line),
                  !.ovf = @ \/ e.cursor_line + e.screen_height < 2]

NormalEnter(e) ==
    Bind(get_indent(e, e.cursor_line), LAMBDA indent :
    Bind(insert_newline(e.buffer, e.cursor_line, e.cursor_col), LAMBDA b1 :
        LET line == e.cursor_line + 1
            auto == e.settings.auto_indent /\ indent # <<>>
        IN  [e EXCEPT !.buffer = IF auto
                                 THEN BufInsert(b1, get_cursor_pos(b1, line, 0),
                                                indent)
                                 ELSE b1,
                      !.undo = push(e.undo,
                                    OpInsert(get_cursor_pos(b1, e.cursor_line, 0),
                                             <<NL>>)),
                      !.cursor_line = line,
                      !.cursor_col = IF auto THEN Len(indent) ELSE 0]))

NormalBackspace(e) ==
    IF e.cursor_col > 0
    THEN Bind(get_cursor_pos(e.buffer, e.cursor_line, e.cursor_col - 1),
              LAMBDA pos :
         Bind(Chars(BufGetLine(e.buffer, e.cursor_line)), LAMBDA chars :
             [e EXCEPT !.buffer = BufDelete(e.buffer, pos, 1),
                       !.undo = push(e.undo,
                                     OpDelete(pos,
                                              IF e.cursor_col - 1 < Len(chars)
                                              THEN chars[e.cursor_col]
                                              ELSE <<SP>>)),
                       !.cursor_col = e.cursor_col - 1]))
    ELSE IF e.cursor_line > 0
    THEN [e EXCEPT !.buffer =
                       BufDelete(e.buffer,
                                 SatSub(get_cursor_pos(e.buffer, e.cursor_line, 0), 1),
                                 1),
                   !.cursor_line = e.cursor_line - 1,
                   !.cursor_col = line_len(e.buffer, e.cursor_line - 1)]
    ELSE e

NormalTab(e) ==
    Bind(IF e.settings.use_spaces
         THEN [i \in 1..e.settings.tab_size |-> SP] ELSE <<TAB>>, LAMBDA text :
    Bind(get_cursor_pos(e.buffer, e.cursor_line, e.cursor_col), LAMBDA pos :
        [e EXCEPT !.buffer = BufInsert(e.buffer, pos, text),
                  !.undo = push(e.undo, OpInsert(pos, text)),
                  !.cursor_col = e.cursor_col + Len(text)]))

NormalCtrlK(e) ==
    IF BufNumLines(e.buffer) > 1
    THEN Bind(get_cursor_pos(e.buffer, e.cursor_line, 0), LAMBDA start_pos :
         Bind(BufDelete(e.buffer, start_pos,
                        line_len(e.buffer, e.cursor_line) + 1), LAMBDA b1 :
         Bind(IF e.cursor_line >= BufNumLines(b1) - 1
              THEN BufNumLines(b1) - 1 ELSE e.cursor_line, LAMBDA line :
             [e EXCEPT !.buffer = b1, !.cursor_line = line,
                       !.cursor_col = Min(e.cursor_col, line_len(b1, line)),
                       !.undo = push(e.undo,
                                     OpDelete(start_pos,
                                              BufGetLine(e.buffer, e.cursor_line)))])))
    ELSE e

\* the first n chars of a String
TakeChars(chars, n) == Flatten(Take(chars, Min(n, Len(chars))))

NormalCtrlU(e) ==
    Bind(get_cursor_pos(e.buffer, e.cursor_line, 0), LAMBDA start_pos :
    Bind(TakeChars(Chars(BufGetLine(e.buffer, e.cursor_line)), e.cursor_col),
         LAMBDA deleted :
        IF e.cursor_col > 0
        THEN [e EXCEPT !.buffer = BufDelete(e.buffer, start_pos, Len(deleted)),
                       !.undo = push(e.undo, OpDelete(start_pos, deleted)),
                       !.cursor_col = 0]
        ELSE e))

\* total_len() - 1 underflows on an empty document
NormalCtrlD(e) ==
    Bind(get_cursor_pos(e.buffer, e.cursor_line, e.cursor_col), LAMBDA pos :
    Bind([e EXCEPT !.ovf = @ \/ total_len(e.buffer) = 0], LAMBDA e1 :
        IF pos < WrapSub(total_len(e.buffer), 1)
        THEN [e1 EXCEPT !.buffer = BufDelete(e.buffer, pos, 1),
                        !.undo = push(e.undo,
                                      OpDelete(pos, get_range(e.buffer.text,
                                                              pos, pos + 1)))]
        ELSE e1))

NormalChar(e, c) ==
    IF IsControlChar(c) THEN e
    ELSE Bind(get_cursor_pos(e.buffer, e.cursor_line, e.cursor_col),
              LAMBDA pos :
             [e EXCEPT !.buffer = BufInsert(e.buffer, pos, c),
                       !.undo = push(e.undo, OpInsert(pos, c)),
                       !.cursor_col = e.cursor_col + 1])

handle_normal(e, k, env) ==
    LET e1 ==
        IF IsCtrl(k, Ascii.h) THEN [e EXCEPT !.mode = ModeHelp]
        ELSE IF IsCtrl(k, Ascii.q) THEN NormalCtrlQ(e)
        ELSE IF IsCtrl(k, Ascii.s) THEN NormalCtrlS(e, env)
        ELSE IF IsCtrl(k, Ascii.o) THEN open_file(e, env)
        ELSE IF IsCtrl(k, Ascii.z) THEN NormalCtrlZ(e)
        ELSE IF IsCtrl(k, Ascii.y) THEN NormalCtrlY(e)
        ELSE IF IsCtrl(k, Ascii.f) THEN [e EXCEPT !.mode = ModeSearch(<<>>, FALSE, FALSE)]
        ELSE IF IsCtrl(k, Ascii.backslash)
        THEN [e EXCEPT !.mode = ModeReplace(<<>>, <<>>, FALSE, FALSE, FALSE)]
        ELSE IF IsCtrl(k, Ascii.g) THEN [e EXCEPT !.mode = ModeGoToLine]
        ELSE IF k.code = "Up" THEN NormalUp(e)
        ELSE IF k.code = "Down" THEN NormalDown(e)
        ELSE IF k.code = "Left" THEN NormalLeft(e)
        ELSE IF k.code = "Right" THEN NormalRight(e)
        ELSE IF k.code = "Home" THEN NormalHome(e)
        ELSE IF k.code = "End" THEN NormalEnd(e)
        ELSE IF k.code = "PageUp" THEN NormalPageUp(e)
        ELSE IF k.code = "PageDown" THEN NormalPageDown(e)
        ELSE IF k.code = "Enter" THEN NormalEnter(e)
        ELSE IF k.code = "Backspace" THEN NormalBackspace(e)
        ELSE IF k.code = "Tab" THEN NormalTab(e)
        ELSE IF IsCtrl(k, Ascii.k) THEN NormalCtrlK(e)
        ELSE IF IsCtrl(k, Ascii.u) THEN NormalCtrlU(e)
        ELSE IF IsCtrl(k, Ascii.d) THEN NormalCtrlD(e)
        ELSE IF k.code = "Char" /\ ~k.ctrl THEN NormalChar(e, k.ch)
        ELSE e
    IN  update_scroll(clamp_cursor(e1))

(* ------------------------ the other modes ------------------------------ *)
\* String::pop: drop the last char
PopChar(str) ==
    LET chars == Chars(str)
    IN  IF chars = <<>> THEN <<>> ELSE Flatten(Take(chars, Len(chars) - 1))

\* the jump of Search mode: find from the cursor; a hit moves the cursor
SearchJump(e, query) ==
    Bind(find(e.buffer, query, e.cursor_line, e.cursor_col), LAMBDA f :
        IF f.panic THEN [e EXCEPT !.crashed = TRUE]
        ELSE IF f.found
        THEN update_scroll(clamp_cursor(
                 [e EXCEPT !.cursor_line = f.line, !.cursor_col = f.col]))
        ELSE e)

\* [e, query, case_sensitive, backward, should_exit]
handle_search_owned(e, k, query, cs, bw) ==
    LET out(e1, q, c, b, x) ==
            [e |-> e1, query |-> q, case_sensitive |-> c, backward |-> b,
             should_exit |-> x]
    IN  IF k.code = "Esc" THEN out(e, query, cs, bw, TRUE)
        ELSE IF k.code = "Enter"
        THEN out(IF query # <<>> THEN SearchJump(e, query) ELSE e,
                 query, cs, bw, TRUE)
        ELSE IF k.code = "Backspace" THEN out(e, PopChar(query), cs, bw, FALSE)
        ELSE IF IsCtrl(k, Ascii.c) THEN out(e, query, ~cs, bw, FALSE)
        ELSE IF IsCtrl(k, Ascii.r) THEN out(e, query, cs, ~bw, FALSE)
        ELSE IF k.code = "Char" /\ ~k.ctrl /\ ~IsControlChar(k.ch)
        THEN out(SearchJump(e, query \o k.ch), query \o k.ch, cs, bw, FALSE)
        ELSE out(e, query, cs, bw, FALSE)

\* a Replace handler whose first Enter already replaces
handle_replace_owned_eager(e, k, search, repl, cs, all, confirmed) ==
    LET out(e1, se, re, a, conf, act, x) ==
            [e |-> e1, search |-> se, replace |-> re, case_sensitive |-> cs,
             all |-> a, confirmed |-> conf, action |-> act, should_exit |-> x]
    IN  IF k.code = "Esc" THEN out(e, search, repl, all, confirmed, None, TRUE)
        ELSE IF k.code = "Enter"
        THEN IF confirmed
             THEN IF all
                  THEN out(e, search, repl, all, confirmed,
                           Some(ActReplaceAll(search, repl)), TRUE)
                  ELSE out([e EXCEPT !.buffer = replace(e.buffer, search, repl).buffer,
                                     !.undo = clear(e.undo)],
                           search, repl, all, confirmed, None, TRUE)
             ELSE out([e EXCEPT !.buffer = replace(e.buffer, search, repl).buffer,
                                !.undo = clear(e.undo)],
                      search, repl, all, TRUE, None, FALSE)
        ELSE IF k.code = "Tab"
        THEN IF search = <<>>
             THEN out(e, BufGetLine(e.buffer, e.cursor_line), repl, all,
                      confirmed, None, FALSE)
             ELSE out(e, search, <<>>, all, confirmed, None, FALSE)
        ELSE IF k.code = "Backspace"
        THEN IF repl = <<>> /\ search # <<>>
             THEN out(e, PopChar(search), repl, all, confirmed, None, FALSE)
             ELSE out(e, search, PopChar(repl), all, confirmed, None, FALSE)
        ELSE IF IsCtrl(k, Ascii.a)
        THEN out(e, search, repl, TRUE, confirmed, None, FALSE)
        ELSE IF k.code = "Char" /\ ~k.ctrl /\ ~IsControlChar(k.ch)
        THEN IF repl = <<>> /\ search # <<>> /\ ~confirmed
             THEN out(e, search, repl \o k.ch, all, confirmed, None, FALSE)
             ELSE IF confirmed
             THEN out(e, search, repl \o k.ch, all, confirmed, None, FALSE)
             ELSE out(e, search \o k.ch, repl, all, confirmed, None, FALSE)
        ELSE out(e, search, repl, all, confirmed, None, FALSE)

\* [e, search, replace, case_sensitive, all, confirmed, action, should_exit]
handle_replace_owned(e, k, search, repl, cs, all, confirmed) ==
    LET out(e1, se, re, a, conf, act, x) ==
            [e |-> e1, search |-> se, replace |-> re, case_sensitive |-> cs,
             all |-> a, confirmed |-> conf, action |-> act, should_exit |-> x]
    IN  IF k.code = "Esc" THEN out(e, search, repl, all, confirmed, None, TRUE)
        ELSE IF k.code = "Enter"
        THEN IF confirmed
             THEN IF all
                  THEN out(e, search, repl, all, confirmed,
                           Some(ActReplaceAll(search, repl)), TRUE)
                  ELSE out([e EXCEPT !.buffer = replace(e.buffer, search, repl).buffer,
                                     !.undo = clear(e.undo)],
                           search, repl, all, confirmed, None, TRUE)
             ELSE out(e, search, repl, all, TRUE, None, FALSE)
        ELSE IF k.code = "Tab"
        THEN IF search = <<>>
             THEN out(e, BufGetLine(e.buffer, e.cursor_line), repl, all,
                      confirmed, None, FALSE)
             ELSE out(e, search, <<>>, all, confirmed, None, FALSE)
        ELSE IF k.code = "Backspace"
        THEN IF repl = <<>> /\ search # <<>>
             THEN out(e, PopChar(search), repl, all, confirmed, None, FALSE)
             ELSE out(e, search, PopChar(repl), all, confirmed, None, FALSE)
        ELSE IF IsCtrl(k, Ascii.a)
        THEN out(e, search, repl, TRUE, confirmed, None, FALSE)
        ELSE IF k.code = "Char" /\ ~k.ctrl /\ ~IsControlChar(k.ch)
        THEN IF repl = <<>> /\ search # <<>> /\ ~confirmed
             THEN out(e, search, repl \o k.ch, all, confirmed, None, FALSE)
             ELSE IF confirmed
             THEN out(e, search, repl \o k.ch, all, confirmed, None, FALSE)
             ELSE out(e, search \o k.ch, repl, all, confirmed, None, FALSE)
        ELSE out(e, search, repl, all, confirmed, None, FALSE)

\* [line_num, should_exit]: no key yields a line number
handle_goto_owned(e, k) ==
    IF k.code \in {"Esc", "Enter"}
    THEN [line_num |-> None, should_exit |-> TRUE]
    ELSE [line_num |-> None, should_exit |-> FALSE]

goto_line(e, line_num) ==
    IF line_num > 0 /\ line_num <= BufNumLines(e.buffer)
    THEN update_scroll(clamp_cursor(
             [e EXCEPT !.cursor_line = line_num - 1, !.cursor_col = 0]))
    ELSE e

\* a Confirm handler whose "No" saves as "Yes" does
handle_confirm_owned_no_saves(e, k, options, selected) ==
    LET out(e1, sel, act) == [e |-> e1, selected |-> sel, action |-> act]
    IN  IF k.code = "Up"
        THEN out(e, IF selected > 0 THEN selected - 1 ELSE selected, None)
        ELSE IF k.code = "Down"
        THEN out(e, IF selected < Len(options) - 1 THEN selected + 1 ELSE selected,
                 None)
        ELSE IF k.code = "Enter"
        THEN IF options[selected + 1] \in {"Yes", "No"}
             THEN IF e.buffer.path # None
                  THEN out(e, selected, Some(ActSaveAndQuit))
                  ELSE out([e EXCEPT !.quit_after_save = TRUE], selected, None)
             ELSE out(e, selected, None)
        ELSE out(e, selected, None)

\* a Confirm handler whose selection wraps around at both ends
handle_confirm_owned_wrap(e, k, options, selected) ==
    LET out(e1, sel, act) == [e |-> e1, selected |-> sel, action |-> act]
    IN  IF k.code = "Up"
        THEN out(e, (selected + Len(options) - 1) % Len(options), None)
        ELSE IF k.code = "Down"
        THEN out(e, (selected + 1) % Len(options), None)
        ELSE IF k.code = "Enter"
        THEN IF options[selected + 1] = "Yes"
             THEN IF e.buffer.path # None
                  THEN out(e, selected, Some(ActSaveAndQuit))
                  ELSE out([e EXCEPT !.quit_after_save = TRUE], selected, None)
             ELSE IF options[selected + 1] = "No"
             THEN out(e, selected, Some(ActQuitWithoutSave))
             ELSE out(e, selected, None)
        ELSE out(e, selected, None)

\* [e, selected, action]; title, message and options come back unchanged
handle_confirm_owned(e, k, options, selected) ==
    LET out(e1, sel, act) == [e |-> e1, selected |-> sel, action |-> act]
    IN  IF k.code = "Up"
        THEN out(e, IF selected > 0 THEN selected - 1 ELSE selected, None)
        ELSE IF k.code = "Down"
        THEN out(e, IF selected < Len(options) - 1 THEN selected + 1 ELSE selected,
                 None)
        ELSE IF k.code = "Enter"
        THEN IF options[selected + 1] = "Yes"
             THEN IF e.buffer.path # None
                  THEN out(e, selected, Some(ActSaveAndQuit))
                  ELSE out([e EXCEPT !.quit_after_save = TRUE], selected, None)
             ELSE IF options[selected + 1] = "No"
             THEN out(e, selected, Some(ActQuitWithoutSave))
             ELSE out(e, selected, None)
        ELSE out(e, selected, None)

\* [input, history, action]
handle_input_owned(k, input, history) ==
    IF k.code = "Enter"
    THEN [input |-> input,
          history |-> IF input # <<>> THEN Append(history, input) ELSE history,
          action |-> Some(ActSaveAs(input))]
    ELSE IF k.code = "Backspace"
    THEN [input |-> PopChar(input), history |-> history, action |-> None]
    ELSE IF k.code = "Char" /\ ~IsControlChar(k.ch)
    THEN [input |-> input \o k.ch, history |-> history, action |-> None]
    ELSE IF k.code = "Tab"
    THEN [input |-> input \o <<TAB>>, history |-> history, action |-> None]
    ELSE [input |-> input, history |-> history, action |-> None]

(* -------------------------- Editor::handle_key ------------------------- *)
\* the arms of handle_key: what each mode does with the outcome r of its
\* handler; e0 is the editor with the mode swapped out for Normal
\* a Search arm that logs the query as an inserted text when it exits
SearchArm_logs_query(r) ==
    IF r.should_exit
    THEN [r.e EXCEPT !.mode = ModeNormal,
                     !.undo = push(r.e.undo, OpInsert(0, r.query))]
    ELSE [r.e EXCEPT !.mode = ModeSearch(r.query, r.case_sensitive, r.backward)]

SearchArm(r) ==
    IF r.should_exit THEN [r.e EXCEPT !.mode = ModeNormal]
    ELSE [r.e EXCEPT !.mode = ModeSearch(r.query, r.case_sensitive, r.backward)]

ReplaceArm(r) ==
    [r.e EXCEPT !.pending_action = IF r.action # None THEN r.action ELSE @,
                !.mode = IF r.should_exit THEN ModeNormal
                         ELSE ModeReplace(r.search, r.replace, r.case_sensitive,
                                          r.all, r.confirmed)]

GoToLineArm(e0, r) ==
    IF r.should_exit THEN [e0 EXCEPT !.mode = ModeNormal]
    ELSE IF r.line_num # None
    THEN [goto_line(e0, r.line_num[1]) EXCEPT !.mode = ModeNormal]
    ELSE e0

ConfirmArm(k, mode, r) ==
    LET is_yes_selected ==
            r.selected < Len(mode.options)
            /\ mode.options[r.selected + 1] = "Yes"
        e1 == [r.e EXCEPT !.pending_action =
                              IF r.action # None THEN r.action ELSE @]
    IN  IF r.action = None /\ k.code = "Enter" /\ is_yes_selected
        THEN [e1 EXCEPT !.quit_after_save = TRUE, !.mode = SaveAsDialog]
        ELSE IF k.code \in {"Enter", "Esc"}
        THEN [e1 EXCEPT !.mode = ModeNormal]
        ELSE [e1 EXCEPT !.mode = ModeConfirm(mode.title, mode.message,
                                             mode.options, r.selected)]

\* an Input arm that leaves the dialog on Enter only
InputArm_enter_only(e0, k, mode, r) ==
    [e0 EXCEPT !.pending_action = IF r.action # None THEN r.action ELSE @,
               !.mode = IF k.code # "Enter"
                        THEN ModeInput(mode.title, r.input, r.history)
                        ELSE ModeNormal]

InputArm(e0, k, mode, r) ==
    [e0 EXCEPT !.pending_action = IF r.action # None THEN r.action ELSE @,
               !.mode = IF k.code \notin {"Enter", "Esc"}
                        THEN ModeInput(mode.title, r.input, r.history)
                        ELSE ModeNormal]

HelpArm(e0, k) ==
    IF k.code = "Esc" \/ IsCtrl(k, Ascii.h)
    THEN [e0 EXCEPT !.mode = ModeNormal]
    ELSE e0

\* the mode step: the mode is swapped out for Normal, then the arm of the
\* old mode runs and may or may not store a mode back
ModeArm(e0, mode, k, env) ==
    IF mode.tag = "Normal" THEN handle_normal(e0, k, env)
    ELSE IF mode.tag = "Search"
    THEN SearchArm(handle_search_owned(e0, k, mode.query, mode.case_sensitive,
                                       mode.backward))
    ELSE IF mode.tag = "Replace"
    THEN ReplaceArm(handle_replace_owned(e0, k, mode.search, mode.replace,
                                         mode.case_sensitive, mode.all,
                                         mode.confirmed))
    ELSE IF mode.tag = "GoToLine" THEN GoToLineArm(e0, handle_goto_owned(e0, k))
    ELSE IF mode.tag = "Confirm"
    THEN ConfirmArm(k, mode,
                    handle_confirm_owned(e0, k, mode.options, mode.selected))
    ELSE IF mode.tag = "Input"
    THEN InputArm(e0, k, mode, handle_input_owned(k, mode.input, mode.history))
    ELSE HelpArm(e0, k)

mode_step(e, k, env) == ModeArm([e EXCEPT !.mode = ModeNormal], e.mode, k, env)

\* the pending action executed and left in its slot
run_pending_keep(e, env) ==
    IF e.pending_action = None THEN e
    ELSE LET action == e.pending_action[1]
             e1 == e
         IN  IF action.tag = "SaveAndQuit"
             THEN [e1 EXCEPT !.buffer = save(e.buffer, env.write_ok),
                             !.should_quit = TRUE]
             ELSE IF action.tag = "QuitWithoutSave"
             THEN [e1 EXCEPT !.buffer.is_modified = FALSE, !.should_quit = TRUE]
             ELSE IF action.tag = "SaveAs"
             THEN LET e2 == [e1 EXCEPT !.buffer =
                                 save_as(e.buffer, action.filename, env.write_ok)]
                  IN  IF e.quit_after_save
                      THEN [e2 EXCEPT !.should_quit = TRUE,
                                      !.quit_after_save = FALSE]
                      ELSE e2
             ELSE \* ReplaceAll
                  [e1 EXCEPT !.buffer =
                                 replace(e.buffer, action.search, action.replace).buffer,
                             !.undo = clear(e.undo)]

\* the pending action, taken out of its slot and executed
run_pending(e, env) ==
    IF e.pending_action = None THEN e
    ELSE LET action == e.pending_action[1]
             e1 == [e EXCEPT !.pending_action = None]
         IN  IF action.tag = "SaveAndQuit"
             THEN [e1 EXCEPT !.buffer = save(e.buffer, env.write_ok),
                             !.should_quit = TRUE]
             ELSE IF action.tag = "QuitWithoutSave"
             THEN [e1 EXCEPT !.buffer.is_modified = FALSE, !.should_quit = TRUE]
             ELSE IF action.tag = "SaveAs"
             THEN LET e2 == [e1 EXCEPT !.buffer =
                                 save_as(e.buffer, action.filename, env.write_ok)]
                  IN  IF e.quit_after_save
                      THEN [e2 EXCEPT !.should_quit = TRUE,
                                      !.quit_after_save = FALSE]
                      ELSE e2
             ELSE \* ReplaceAll
                  [e1 EXCEPT !.buffer =
                                 replace(e.buffer, action.search, action.replace).buffer,
                             !.undo = clear(e.undo)]

\* the bytes Buffer::save and Buffer::save_as hand to std::fs::write
save_content(b) == TrimEndNL(to_string(b.text))

\* the file the pending action of e writes: std::fs::write(path, content)
\* in Buffer::save / Buffer::save_as, content without its trailing
\* terminators; None when no write is made or the write fails
written(e, env) ==
    IF e.pending_action = None \/ ~env.write_ok THEN None
    ELSE LET action == e.pending_action[1]
             content == save_content(e.buffer)
         IN  IF action.tag = "SaveAndQuit" /\ e.buffer.path # None
             THEN Some([path |-> e.buffer.path[1], content |-> content])
             ELSE IF action.tag = "SaveAs"
             THEN Some([path |-> action.filename, content |-> content])
             ELSE None

\* the tail of handle_key: a pending action left by the mode step is run
after_mode_step(e1, env) ==
    IF e1.crashed THEN e1 ELSE run_pending(e1, env)

\* handle_key up to the point where it returns or the process panics.  env:
\* what the surroundings decide during it (write_ok: a file write succeeds;
\* open: what Ctrl+O finds to load)
key_event(e, k, env) == after_mode_step(mode_step(e, k, env), env)

\* what a key event leaves behind: a panic ends the process with the state
\* it had; an unsigned subtraction below zero panics in a build with
\* overflow checks (checked) and wraps in one without
settle(e, r, checked) ==
    IF r.crashed THEN [e EXCEPT !.crashed = TRUE]
    ELSE IF r.ovf
    THEN IF checked /\ ~e.wrapped THEN [e EXCEPT !.crashed = TRUE]
         ELSE [r EXCEPT !.ovf = FALSE, !.wrapped = TRUE]
    ELSE r

\* one key press handled to completion
handle_key(e, k, env) == settle(e, key_event(e, k, env), env.checked)

(* ------------------------------ state --------------------------------- *)
VARIABLES
    gap,        \* SpecGap: a GapBuffer driven directly through insert/delete
    ref,        \* SpecGap: the plain reference string given the same calls
    buf,        \* SpecBuf: a Buffer driven directly through its mutators
    buf_op,     \* SpecBuf: the mutator that produced buf ("new", "from_file", ...)
    history,    \* SpecUndo: an UndoHistory driven directly, over buf
    ed,         \* Spec: the Editor
    handled     \* Spec: a key press has been handled since construction

gapv == <<gap, ref>>
bufv == <<buf, buf_op>>
undov == <<history>>
edv == <<ed, handled>>
vars == <<gap, ref, buf, buf_op, history, ed, handled>>

(* ---------------- SpecGap: GapBuffer against a plain string ------------ *)
GapAlphabet == {LetterA, LetterB, NL}
GapTexts == SeqsUpTo(GapAlphabet, 2) \ {<<>>}

\* the same operations on a plain string: offset clamped to the length,
\* delete length clamped to the remaining bytes
RefInsert(r, pos, text) ==
    LET p == Min(pos, Len(r)) IN Take(r, p) \o text \o Drop(r, p)
RefDelete(r, pos, len) ==
    LET p == Min(pos, Len(r))
        n == Min(len, Len(r) - p)
    IN  Take(r, p) \o Drop(r, p + n)

DefaultSettings == [tab_size |-> 4, use_spaces |-> TRUE, auto_indent |-> TRUE]

GapIdle == gap = GapNew /\ ref = <<>>
BufIdle == buf = BufferNew /\ buf_op = "idle"
UndoIdle == history = UndoNew
EdIdle == ed = EditorNew(BufferNew, DefaultSettings, 24) /\ handled = FALSE

InitGap ==
    /\ \E s \in SeqsUpTo(GapAlphabet, 2) : gap = from_string(s) /\ ref = s
    /\ BufIdle
    /\ UndoIdle
    /\ EdIdle

DoGapInsert ==
    \E pos \in 0..MaxArg, text \in GapTexts :
        /\ Len(ref) + Len(text) <= MaxGapLen
        /\ gap' = GapInsert(gap, pos, text)
        /\ ref' = RefInsert(ref, pos, text)
        /\ UNCHANGED <<bufv, undov, edv>>

DoGapDelete ==
    \E pos \in 0..MaxArg, len \in 0..MaxArg :
        /\ gap' = GapDelete(gap, pos, len)
        /\ ref' = RefDelete(ref, pos, len)
        /\ UNCHANGED <<bufv, undov, edv>>

NextGap == DoGapInsert \/ DoGapDelete

SpecGap == InitGap /\ [][NextGap]_vars

\* C1: after any sequence of insert/delete calls from any initial content,
\* to_string() equals the reference string built by the same calls.
C1_RoundTrip == to_string(gap) = ref

(* ---------------- SpecBuf: Buffer driven through its mutators ---------- *)
\* 'e' with acute accent, a two-byte char
EAcute == <<195, 169>>
BufTexts == {<<LetterA>>, <<NL>>, <<LetterA, NL>>, EAcute}
BufPatterns == {<<>>, <<LetterA>>, <<NL>>}
BufFiles == SeqsUpTo({LetterA, NL}, 2) \cup {EAcute}

InitBuf ==
    /\ GapIdle
    /\ UndoIdle
    /\ EdIdle
    /\ \/ buf = BufferNew /\ buf_op = "new"
       \/ buf = for_new_file("f") /\ buf_op = "for_new_file"
       \/ \E c \in BufFiles : buf = from_file("f", c) /\ buf_op = "from_file"

DoBufInsert ==
    \E pos \in 0..MaxArg, text \in BufTexts :
        /\ total_len(buf) + Len(text) <= MaxBufLen
        /\ buf' = BufInsert(buf, pos, text)
        /\ buf_op' = "insert"
        /\ UNCHANGED <<gapv, undov, edv>>

DoBufDelete ==
    \E pos \in 0..MaxArg, len \in 0..MaxArg :
        /\ buf' = BufDelete(buf, pos, len)
        /\ buf_op' = "delete"
        /\ UNCHANGED <<gapv, undov, edv>>

DoBufInsertNewline ==
    \E line \in 0..MaxArg, col \in 0..MaxArg :
        /\ total_len(buf) + 1 <= MaxBufLen
        /\ buf' = insert_newline(buf, line, col)
        /\ buf_op' = "insert_newline"
        /\ UNCHANGED <<gapv, undov, edv>>

DoBufReplace ==
    \E old \in BufPatterns, new \in BufPatterns :
        LET r == replace(buf, old, new)
        IN  /\ total_len(r.buffer) <= MaxBufLen
            /\ buf' = r.buffer
            /\ buf_op' = "replace"
            /\ UNCHANGED <<gapv, undov, edv>>

NextBuf == DoBufInsert \/ DoBufDelete \/ DoBufInsertNewline \/ DoBufReplace

SpecBuf == InitBuf /\ [][NextBuf]_vars

Mutators == {"insert", "delete", "insert_newline", "replace"}

\* the logical document: the two runs of the byte store, concatenated
Content(g) == g.before \o g.after

CountNL(s) == Cardinality({i \in 1..Len(s) : s[i] = NL})

\* the lines of a byte string: the runs between terminators (terminators
\* excluded); a string with k terminators has k + 1 lines
RECURSIVE SplitLines(_)
SplitLines(s) ==
    LET at == {i \in 1..Len(s) : s[i] = NL}
    IN  IF at = {} THEN <<s>>
        ELSE LET i == CHOOSE x \in at : \A y \in at : x <= y
             IN  <<Take(s, i - 1)>> \o SplitLines(Drop(s, i))

\* C6: (line, col) -> offset -> (line, col) is the identity on every valid
\* position: line < num_lines, col <= length of the line without terminator.
C6_CursorRoundTrip ==
    LET lines == SplitLines(Content(buf.text))
    IN  \A i \in 0..(BufNumLines(buf) - 1) :
            \A c \in 0..Len(lines[i + 1]) :
                get_line_col(buf, get_cursor_pos(buf, i, c)) = <<i, c>>

\* C7: after any mutation num_lines() is the number of line terminators in
\* the content plus one (hence at least 1).
C7_NumLines ==
    buf_op \in Mutators =>
        /\ BufNumLines(buf) = CountNL(Content(buf.text)) + 1
        /\ BufNumLines(buf) >= 1

C7_Witness ==
    /\ buf_op \in Mutators
    /\ buf.text.before # <<>>
    /\ CountNL(buf.text.after) >= 1
    /\ BufNumLines(buf) >= 3

\* C8 as stated: after every mutation the line index is strictly increasing,
\* starts with 0 and ends with the total length.
StrictlyIncreasing(offs) ==
    \A i, j \in 1..Len(offs) : i < j => offs[i] < offs[j]

C8_StrictIndex ==
    buf_op \in Mutators =>
        /\ buf.line_offsets[1] = 0
        /\ buf.line_offsets[Len(buf.line_offsets)] = total_len(buf)
        /\ StrictlyIncreasing(buf.line_offsets)

\* C8 amended: the line starts (all entries but the sentinel) are strictly
\* increasing from 0; the sentinel is the total length and is never less
\* than the last line start, which it repeats exactly when the content is
\* empty or ends with a terminator.
C8_IndexShape ==
    buf_op \in Mutators =>
        LET offs == buf.line_offsets
            n == Len(offs)
            c == Content(buf.text)
        IN  /\ offs = buf.text.line_offsets
            /\ n >= 2
            /\ offs[1] = 0
            /\ offs[n] = total_len(buf)
            /\ StrictlyIncreasing(Take(offs, n - 1))
            /\ offs[n - 1] <= offs[n]
            /\ (offs[n - 1] = offs[n]) <=> (c = <<>> \/ c[Len(c)] = NL)

C8_Witness ==
    /\ buf_op \in Mutators
    /\ Len(buf.line_offsets) >= 4
    /\ buf.text.before # <<>> /\ buf.text.after # <<>>
    /\ buf.line_offsets[Len(buf.line_offsets) - 1] = total_len(buf)


(* ----------- SpecUndo: UndoHistory driven through recorded edits -------- *)
\* An edit is recorded the way handle_normal records a typed char or a
\* Ctrl+D: the buffer is changed at an offset and the matching operation is
\* pushed.  buf_op names what happened last; "edit_after_undo" is an edit
\* made while undone operations were still in the log.
UndoTexts == {<<LetterA>>, <<NL>>}
UndoFiles == {<<LetterA, NL>>}

InitUndo ==
    /\ GapIdle
    /\ EdIdle
    /\ history = UndoNew
    /\ buf_op = "new"
    /\ \/ buf = BufferNew
       \/ \E c \in UndoFiles : buf = from_file("f", c)

Recorded(op) ==
    /\ history' = push(history, op)
    /\ Len(history'.ops) <= MaxLog
    /\ buf_op' = IF history.pos < Len(history.ops)
                 THEN "edit_after_undo" ELSE "edit"
    /\ UNCHANGED <<gapv, edv>>

DoRecordInsert ==
    \E pos \in 0..total_len(buf), text \in UndoTexts :
        /\ total_len(buf) + Len(text) <= MaxBufLen
        /\ buf' = BufInsert(buf, pos, text)
        /\ Recorded(OpInsert(pos, text))

DoRecordDelete ==
    \E pos \in 0..(total_len(buf) - 1) :
        /\ buf' = BufDelete(buf, pos, 1)
        /\ Recorded(OpDelete(pos, get_range(buf.text, pos, pos + 1)))

DoUndo ==
    LET r == undo(history, buf)
    IN  /\ history' = r.undo
        /\ buf' = r.buffer
        /\ buf_op' = IF r.ok THEN "undo" ELSE "undo_failed"
        /\ UNCHANGED <<gapv, edv>>

DoRedo ==
    LET r == redo(history, buf)
    IN  /\ history' = r.undo
        /\ buf' = r.buffer
        /\ buf_op' = IF r.ok THEN "redo" ELSE "redo_failed"
        /\ UNCHANGED <<gapv, edv>>

NextUndo == DoRecordInsert \/ DoRecordDelete \/ DoUndo \/ DoRedo

SpecUndo == InitUndo /\ [][NextUndo]_vars

\* C10: immediately after any push, also one made after undos, nothing is
\* left at or after the log's cursor index: redo reports failure and leaves
\* the document and the log as they are.
C10_RedoFailsAfterPush ==
    buf_op \in {"edit", "edit_after_undo"} =>
        LET r == redo(history, buf)
        IN  /\ history.pos = Len(history.ops)
            /\ ~r.ok
            /\ r.buffer = buf
            /\ r.undo = history

C10_Witness ==
    /\ buf_op = "edit_after_undo"
    /\ history.pos = Len(history.ops)
    /\ Len(history.ops) = MaxLog

(* ------------- SpecCap: UndoHistory filled up to its capacity ----------- *)
\* Characters are typed at the end of a fresh document, each recorded as
\* Insert{pos, "a"} with pos the offset typed at, so the operations of the
\* log are told apart by their pos; undo and redo move the cursor index
\* within MaxBack of the top of the log.
InitCap ==
    /\ GapIdle
    /\ EdIdle
    /\ history = UndoNew
    /\ buf = BufferNew
    /\ buf_op = "new"

CapTyped(pos) ==
    /\ buf' = BufInsert(buf, pos, <<LetterA>>)
    /\ history' = push(history, OpInsert(pos, <<LetterA>>))
    /\ buf_op' = IF history.pos = UndoCap THEN "type_evict" ELSE "type"
    /\ UNCHANGED <<gapv, edv>>

DoCapType ==
    /\ total_len(buf) < 1 + UndoCap + MaxEvict
    /\ CapTyped(total_len(buf))

DoCapUndo ==
    /\ Len(history.ops) - history.pos < MaxBack
    /\ DoUndo

DoCapRedo ==
    /\ history.pos < Len(history.ops)
    /\ DoRedo

NextCap == DoCapType \/ DoCapUndo \/ DoCapRedo

SpecCap == InitCap /\ [][NextCap]_vars

\* the operations a further push could record
CapOps == {OpInsert(0, <<LetterA>>), OpDelete(1, <<NL>>)}

\* C11: in every reachable state of the log 0 <= pos <= len(ops) <= 1000;
\* a push leaves the pushed operation last with pos just past it, and keeps
\* before it the operations below the cursor index in their order, less the
\* oldest one exactly when the push would take the log past 1000 entries.
C11_CapAndEviction ==
    /\ 0 <= history.pos
    /\ history.pos <= Len(history.ops)
    /\ Len(history.ops) <= UndoCap
    /\ \A op \in CapOps :
           LET kept == Take(history.ops, history.pos)
               u1 == push(history, op)
               n == Len(u1.ops)
           IN  /\ n >= 1 /\ n <= UndoCap
               /\ u1.pos = n
               /\ u1.ops[n] = op
               /\ Take(u1.ops, n - 1) =
                      (IF Len(kept) + 1 > UndoCap THEN Tail(kept) ELSE kept)

\* the log is full, its oldest operations have been evicted, and the
\* operations left are the typed characters that followed them, in order
C11_Witness ==
    /\ buf_op = "type_evict"
    /\ Len(history.ops) = UndoCap
    /\ history.pos = UndoCap
    /\ history.ops[1].pos = MaxEvict + 1
    /\ history.ops[UndoCap].pos = UndoCap + MaxEvict

(* ------------- Spec: the Editor in Normal mode under key presses -------- *)
TypedChars == {<<LetterA>>}
TabSizes == {1}
\* spaces with auto-indent, and tabs without
SettingsSet ==
    {[tab_size |-> t, use_spaces |-> x, auto_indent |-> x] :
        t \in TabSizes, x \in BOOLEAN}
\* texts of the file named on the command line, and of the file Ctrl+O finds
InitFiles == {<<LetterA, NL>>}
OpenFiles == {<<LetterA>>}
ScreenHeights == {5}

Envs == [write_ok : {TRUE}, open : {None}]
OpenEnvs == [write_ok : {TRUE}, open : {None} \cup {Some(c) : c \in OpenFiles}]

\* the dialog texts explored: at most MaxTyped characters typed, and in the
\* Save As dialog at most MaxPop characters of the proposed name deleted
DialogBounded(m) ==
    IF m.tag = "Search" THEN Len(m.query) <= MaxTyped
    ELSE IF m.tag = "Replace"
    THEN Len(m.search) <= MaxTyped /\ Len(m.replace) <= MaxTyped
    ELSE IF m.tag = "Input"
    THEN \E kept \in (Len(Untitled) - MaxPop)..Len(Untitled) :
             /\ Len(m.input) >= kept
             /\ Len(m.input) <= kept + MaxTyped
             /\ Take(m.input, kept) = Take(Untitled, kept)
    ELSE TRUE

\* the part of the state space explored
Bounded(e) ==
    /\ total_len(e.buffer) <= MaxLen
    /\ Len(e.undo.ops) <= MaxOps
    /\ DialogBounded(e.mode)

Init ==
    /\ GapIdle
    /\ BufIdle
    /\ UndoIdle
    /\ handled = FALSE
    /\ \E st \in SettingsSet, h \in ScreenHeights :
          \/ ed = EditorNew(BufferNew, st, h)
          \/ \E c \in InitFiles : ed = EditorNew(from_file("f.txt", c), st, h)

\* the event loop reads one key press and handles it to completion; a build
\* with overflow checks and one without differ only where a subtraction
\* goes below zero
Outcome(r) ==
    \E checked \in (IF r.ovf /\ ~r.crashed THEN BOOLEAN ELSE {FALSE}) :
        /\ ed' = settle(ed, r, checked)
        /\ Bounded(ed')

\* the event loop runs until the editor quits or the process has panicked
Running == ~ed.should_quit /\ ~ed.crashed

Press(k, envs) ==
    /\ \E env \in envs : Outcome(key_event(ed, k, env))
    /\ handled' = TRUE
    /\ UNCHANGED <<gapv, bufv, undov>>

PressChar == Running /\ \E c \in TypedChars : Press(KeyChar(c), Envs)
PressEnter == Running /\ Press(KeyNamed("Enter"), Envs)
PressBackspace == Running /\ Press(KeyNamed("Backspace"), Envs)
PressTab == Running /\ Press(KeyNamed("Tab"), Envs)
PressUp == Running /\ Press(KeyNamed("Up"), Envs)
PressDown == Running /\ Press(KeyNamed("Down"), Envs)
PressLeft == Running /\ Press(KeyNamed("Left"), Envs)
PressRight == Running /\ Press(KeyNamed("Right"), Envs)
PressHome == Running /\ Press(KeyNamed("Home"), Envs)
PressEnd == Running /\ Press(KeyNamed("End"), Envs)
PressPageUp == Running /\ Press(KeyNamed("PageUp"), Envs)
PressPageDown == Running /\ Press(KeyNamed("PageDown"), Envs)
\* a key without a binding
PressOther == Running /\ Press(KeyNamed("F1"), Envs)
PressCtrlO == Running /\ Press(KeyCtrl(Ascii.o), OpenEnvs)
PressCtrlZ == Running /\ Press(KeyCtrl(Ascii.z), Envs)
PressCtrlY == Running /\ Press(KeyCtrl(Ascii.y), Envs)
PressCtrlK == Running /\ Press(KeyCtrl(Ascii.k), Envs)
PressCtrlU == Running /\ Press(KeyCtrl(Ascii.u), Envs)
PressCtrlD == Running /\ Press(KeyCtrl(Ascii.d), Envs)

Next ==
    \/ PressChar \/ PressEnter \/ PressBackspace \/ PressTab
    \/ PressUp \/ PressDown \/ PressLeft \/ PressRight \/ PressHome
    \/ PressEnd \/ PressPageUp \/ PressPageDown \/ PressOther
    \/ PressCtrlO \/ PressCtrlZ \/ PressCtrlY
    \/ PressCtrlK \/ PressCtrlU \/ PressCtrlD

Spec == Init /\ [][Next]_vars

(* ------------- SpecModes: the Editor and its dialogs -------------------- *)
\* The keys that open, drive and leave the dialogs, with a digit as the one
\* character typed; file writes may fail.
Digits == {<<Ascii.one>>}
ModeFiles == {<<Ascii.one, NL>>}
IOEnvs == [write_ok : BOOLEAN, open : {None}]

InitModes ==
    /\ GapIdle
    /\ BufIdle
    /\ UndoIdle
    /\ handled = FALSE
    /\ \E h \in ScreenHeights :
          \/ ed = EditorNew(BufferNew, DefaultSettings, h)
          \/ \E c \in ModeFiles :
                 ed = EditorNew(from_file("f.txt", c), DefaultSettings, h)

PressDigit == Running /\ \E c \in Digits : Press(KeyChar(c), IOEnvs)
PressEnterIO == Running /\ Press(KeyNamed("Enter"), IOEnvs)
PressEsc == Running /\ Press(KeyNamed("Esc"), IOEnvs)
PressCtrlQ == Running /\ Press(KeyCtrl(Ascii.q), IOEnvs)
PressCtrlS == Running /\ Press(KeyCtrl(Ascii.s), IOEnvs)
PressCtrlF == Running /\ Press(KeyCtrl(Ascii.f), IOEnvs)
PressCtrlBackslash == Running /\ Press(KeyCtrl(Ascii.backslash), IOEnvs)
PressCtrlG == Running /\ Press(KeyCtrl(Ascii.g), IOEnvs)
PressCtrlH == Running /\ Press(KeyCtrl(Ascii.h), IOEnvs)
PressCtrlA == Running /\ Press(KeyCtrl(Ascii.a), IOEnvs)

NextModes ==
    \/ PressDigit \/ PressEnterIO \/ PressEsc \/ PressUp \/ PressDown
    \/ PressCtrlQ \/ PressCtrlS \/ PressCtrlF \/ PressCtrlBackslash
    \/ PressCtrlG \/ PressCtrlH \/ PressCtrlA \/ PressCtrlZ \/ PressCtrlY

SpecModes == InitModes /\ [][NextModes]_vars


\* a build without overflow checks, nothing to load, writes succeed
Env0 == [checked |-> FALSE, write_ok |-> TRUE, open |-> None]
CtrlZ == KeyCtrl(Ascii.z)
CtrlY == KeyCtrl(Ascii.y)

\* the document of an Editor, byte for byte
Doc(e) == Content(e.buffer.text)

\* the cursor names a line of the document and a column on it, the line
\* taken without its terminator
CursorInRange(e) ==
    LET lines == SplitLines(Doc(e))
    IN  /\ e.cursor_line < BufNumLines(e.buffer)
        /\ e.cursor_line < Len(lines)
        /\ e.cursor_col <= Len(lines[e.cursor_line + 1])

\* the editing keys of C2: printable character, Enter, Backspace, Tab
EditKeys ==
    {KeyChar(c) : c \in TypedChars}
        \cup {KeyNamed("Enter"), KeyNamed("Backspace"), KeyNamed("Tab")}
\* longest sequence of editing keys replayed from a state
MaxEdits == 2
EditSeqs == SeqsUpTo(EditKeys, MaxEdits) \ {<<>>}

RECURSIVE PressAll(_, _)
PressAll(e, ks) ==
    IF ks = <<>> THEN e ELSE PressAll(handle_key(e, ks[1], Env0), Tail(ks))

\* Ctrl+Z until undo reports failure, Ctrl+Y until redo reports failure
RECURSIVE UndoAll(_)
UndoAll(e) ==
    IF undo(e.undo, e.buffer).ok THEN UndoAll(handle_key(e, CtrlZ, Env0)) ELSE e
RECURSIVE RedoAll(_)
RedoAll(e) ==
    IF redo(e.undo, e.buffer).ok THEN RedoAll(handle_key(e, CtrlY, Env0)) ELSE e

\* C2: from a document whose log is empty, after any sequence of editing
\* keys (printable character, Enter, Backspace, Tab), Ctrl+Z until undo fails
\* gives back the initial bytes, and Ctrl+Y until redo fails then gives back
\* the bytes the document had after the last edit.
C2_UndoAllRedoAll ==
    (ed.undo = UndoNew /\ ~ed.crashed /\ CursorInRange(ed)) =>
        \A ks \in EditSeqs :
            LET s1 == PressAll(ed, ks)
                s0 == UndoAll(s1)
                s2 == RedoAll(s0)
            IN  /\ Doc(s0) = Doc(ed)
                /\ Doc(s2) = Doc(s1)

\* C3: one character typed at an in-range cursor is undone to the bytes
\* before it and redone to the bytes after it; and from any state undo then
\* redo, or redo then undo, leaves the bytes of the document as they were.
C3_UndoRedoSingle ==
    (~ed.crashed /\ CursorInRange(ed)) =>
        /\ \A c \in TypedChars :
               LET e1 == handle_key(ed, KeyChar(c), Env0)
                   e2 == handle_key(e1, CtrlZ, Env0)
                   e3 == handle_key(e2, CtrlY, Env0)
               IN  /\ Doc(e2) = Doc(ed)
                   /\ Doc(e3) = Doc(e1)
        /\ ed.undo.pos > 0 =>
               Doc(handle_key(handle_key(ed, CtrlZ, Env0), CtrlY, Env0)) = Doc(ed)
        /\ ed.undo.pos < Len(ed.undo.ops) =>
               Doc(handle_key(handle_key(ed, CtrlY, Env0), CtrlZ, Env0)) = Doc(ed)

\* C4: in every reachable state the document is not empty and its last
\* byte is the line terminator.
C4_EndsWithNL ==
    /\ Doc(ed) # <<>>
    /\ Doc(ed)[Len(Doc(ed))] = NL

\* C5: after every key event handled to completion the cursor is on a line
\* of the document, at a column no greater than the length of that line
\* without its terminator.
C5_CursorInRange ==
    (handled /\ ~ed.crashed) => CursorInRange(ed)

\* the Normal-mode keys that C9 lists as changing the document
ContentKeys ==
    EditKeys \cup {KeyCtrl(Ascii.k), KeyCtrl(Ascii.u), KeyCtrl(Ascii.d)}

\* u1 is u after exactly one push
OnePush(u, u1) ==
    /\ u1.pos = u.pos + 1
    /\ Len(u1.ops) = u1.pos
    /\ Take(u1.ops, u.pos) = Take(u.ops, u.pos)

\* C9: a Normal-mode key press that changes the bytes of the document pushes
\* exactly one operation onto the edit log; a file load that changes them
\* pushes none and clears the log.
C9_OnePushPerEdit ==
    (~ed.crashed /\ ed.mode = ModeNormal) =>
        /\ \A k \in ContentKeys :
               LET r == handle_key(ed, k, Env0)
               IN  Doc(r) # Doc(ed) => OnePush(ed.undo, r.undo)
        /\ \A env \in OpenEnvs :
               LET r == handle_key(ed, KeyCtrl(Ascii.o),
                                   [checked |-> FALSE, write_ok |-> env.write_ok,
                                    open |-> env.open])
               IN  Doc(r) # Doc(ed) => r.undo = UndoNew

\* the document, the log and the cursor of e1 are those of e
SameDocLogCursor(e, e1) ==
    /\ Doc(e1) = Doc(e)
    /\ e1.undo = e.undo
    /\ e1.cursor_line = e.cursor_line
    /\ e1.cursor_col = e.cursor_col

\* C12: with the log's cursor index at 0 undo returns false, with it at the
\* log's length redo returns false, and the Ctrl+Z resp. Ctrl+Y key event
\* then leaves the document, the log and the cursor (line, col) unchanged.
C12_BoundaryNoOp ==
    (Running /\ ed.mode = ModeNormal) =>
        /\ ed.undo.pos = 0 =>
               /\ ~undo(ed.undo, ed.buffer).ok
               /\ SameDocLogCursor(ed, handle_key(ed, CtrlZ, Env0))
        /\ ed.undo.pos = Len(ed.undo.ops) =>
               /\ ~redo(ed.undo, ed.buffer).ok
               /\ SameDocLogCursor(ed, handle_key(ed, CtrlY, Env0))

\* the offsets of the non-overlapping occurrences of pat in s, taken from
\* the left, starting at offset i; the empty string occurs at every offset
RECURSIVE OccFrom(_, _, _)
OccFrom(s, pat, i) ==
    IF i + Len(pat) > Len(s) THEN <<>>
    ELSE IF Slice(s, i, i + Len(pat)) = pat
    THEN <<i>> \o OccFrom(s, pat, i + Max(Len(pat), 1))
    ELSE OccFrom(s, pat, i + 1)

\* s from offset i on, with the occurrences at the offsets occ replaced by to
RECURSIVE Splice(_, _, _, _, _)
Splice(s, occ, n, to, i) ==
    IF occ = <<>> THEN Drop(s, i)
    ELSE Slice(s, i, occ[1]) \o to \o Splice(s, Tail(occ), n, to, occ[1] + n)

RefReplaceAll(s, pat, to) == Splice(s, OccFrom(s, pat, 0), Len(pat), to, 0)

EndWithNL(s) == IF s # <<>> /\ s[Len(s)] = NL THEN s ELSE s \o <<NL>>

Enter == KeyNamed("Enter")
\* the Replace dialog is confirmed with "all" set: Enter emits ReplaceAll
ReplaceAllReady == Running /\ ed.mode.tag = "Replace" /\ ed.mode.confirmed /\ ed.mode.all

\* what C13 says of the log, the count and the action, for the document
\* expected
ReplaceAllTo(expected) ==
    LET se == ed.mode.search
        re == ed.mode.replace
        r == handle_key(ed, Enter, Env0)
        u == undo(r.undo, r.buffer)
    IN  /\ mode_step(ed, Enter, Env0).pending_action = Some(ActReplaceAll(se, re))
        /\ r.mode = ModeNormal
        /\ r.pending_action = None
        /\ Doc(r) = expected
        /\ replace(ed.buffer, se, re).count = Len(OccFrom(Doc(ed), se, 0))
        /\ r.undo = UndoNew
        /\ ~u.ok /\ u.buffer = r.buffer /\ u.undo = r.undo

Esc == KeyNamed("Esc")
DialogTags == {"Search", "Replace", "GoToLine", "Confirm", "Input", "Help"}

\* C14: in every non-Normal mode, Esc makes the mode Normal, emits no
\* pending action, and leaves the document content, the modified flag and
\* the edit log unchanged.
C14_EscToNormal ==
    (Running /\ ed.mode.tag \in DialogTags) =>
        \A env \in IOEnvs :
            LET e1 == mode_step(ed, Esc, env)
                r == handle_key(ed, Esc, [checked |-> FALSE, write_ok |-> env.write_ok,
                                          open |-> env.open])
            IN  /\ e1.pending_action = None
                /\ r.pending_action = None
                /\ r.mode = ModeNormal
                /\ ~r.should_quit
                /\ Doc(r) = Doc(ed)
                /\ r.buffer.is_modified = ed.buffer.is_modified
                /\ r.undo = ed.undo

\* the Save As dialog over a modified document with a logged edit, a
\* character typed into it
C14_Witness ==
    /\ Running
    /\ ed.mode.tag = "Input"
    /\ Len(ed.mode.input) > Len(Untitled)
    /\ ed.buffer.is_modified
    /\ ed.undo.pos > 0
    /\ Bounded(handle_key(ed, Esc, Env0))

CtrlQ == KeyCtrl(Ascii.q)
FailEnv == [checked |-> FALSE, write_ok |-> FALSE, open |-> None]
QuitOptions == <<"Yes", "No", "Cancel">>
\* "out.txt"
OutTxt == <<Ascii.o, Ascii.u, Ascii.t, Ascii.dot, Ascii.t, Ascii.x, Ascii.t>>
TypedNames == {<<Ascii.one>>, OutTxt}
Typing(name) == [i \in 1..Len(name) |-> KeyChar(<<name[i]>>)]

\* C15: Ctrl+Q in Normal mode opens Confirm with Yes/No/Cancel on a
\* modified document with a path, opens Input "Save As" on a modified
\* document without a path, and in every other case quits at once without
\* entering a dialog.
C15_CtrlQ ==
    (Running /\ ed.mode = ModeNormal) =>
        LET r == handle_key(ed, CtrlQ, Env0)
        IN  IF ed.buffer.is_modified /\ ed.buffer.path # None
            THEN /\ r.mode.tag = "Confirm"
                 /\ r.mode.options = QuitOptions
                 /\ ~r.should_quit
            ELSE IF ed.buffer.is_modified
            THEN /\ r.mode.tag = "Input"
                 /\ r.mode.title = "Save As"
                 /\ ~r.should_quit
            ELSE /\ r.should_quit
                 /\ r.mode = ModeNormal

\* C16: in the Save As dialog opened by Ctrl+Q on a new document, typing
\* a file name and pressing Enter emits SaveAs with exactly the characters
\* typed, and the mode returns to Normal.
C16_SaveAsTyped ==
    (Running /\ ed.mode = ModeNormal /\ ed.buffer.path = None
             /\ ed.buffer.is_modified) =>
        \A name \in TypedNames :
            LET typed == PressAll(handle_key(ed, CtrlQ, Env0), Typing(name))
            IN  /\ typed.mode.tag = "Input"
                /\ mode_step(typed, Enter, Env0).pending_action =
                       Some(ActSaveAs(name))
                /\ handle_key(typed, Enter, Env0).mode = ModeNormal

\* Enter is about to run a quit that depends on a save: SaveAndQuit, or
\* SaveAs with quit_after_save set
QuitOnSave(e) ==
    LET e1 == mode_step(e, Enter, Env0)
    IN  /\ e1.pending_action # None
        /\ \/ e1.pending_action[1].tag = "SaveAndQuit"
           \/ e1.pending_action[1].tag = "SaveAs" /\ e1.quit_after_save

\* C17: a quit that depends on a save ends the loop only after the save
\* succeeded: when the write fails, should_quit is not set and the
\* modified document stays open.
C17_QuitOnlyAfterSave ==
    (Running /\ QuitOnSave(ed)) =>
        /\ handle_key(ed, Enter, Env0).should_quit
        /\ LET r == handle_key(ed, Enter, FailEnv)
           IN  /\ ~r.should_quit
               /\ r.buffer.is_modified = ed.buffer.is_modified
               /\ Doc(r) = Doc(ed)

\* the Confirm dialog over a document with a path, the option named label
\* selected
ConfirmOn(label) ==
    /\ Running
    /\ ed.mode.tag = "Confirm"
    /\ ed.buffer.path # None
    /\ ed.mode.selected < Len(ed.mode.options)
    /\ ed.mode.options[ed.mode.selected + 1] = label

\* C18: in Confirm mode on a document with a path, Enter on "Yes" emits
\* SaveAndQuit (the document is written to its path and quit is set), Enter
\* on "No" emits QuitWithoutSave (quit is set, no file is written), and
\* Enter on "Cancel" emits no action, does not quit and returns to Normal
\* with the document unchanged.
C18_ConfirmEnter ==
    LET e1 == mode_step(ed, Enter, Env0)
        r == handle_key(ed, Enter, Env0)
    IN  /\ ConfirmOn("Yes") =>
               /\ e1.pending_action = Some(ActSaveAndQuit)
               /\ written(e1, Env0) =
                      Some([path |-> ed.buffer.path[1],
                            content |-> TrimEndNL(Doc(ed))])
               /\ r.should_quit
               /\ ~r.buffer.is_modified
               /\ Doc(r) = Doc(ed)
        /\ ConfirmOn("No") =>
               /\ e1.pending_action = Some(ActQuitWithoutSave)
               /\ \A env \in IOEnvs : written(e1, env) = None
               /\ r.should_quit
               /\ Doc(r) = Doc(ed)
        /\ ConfirmOn("Cancel") =>
               /\ e1.pending_action = None
               /\ \A env \in IOEnvs : written(e1, env) = None
               /\ ~r.should_quit
               /\ r.mode = ModeNormal
               /\ r.buffer = ed.buffer
               /\ r.undo = ed.undo

\* "No" is selected in the dialog over a modified document
C18_Witness ==
    /\ ConfirmOn("No")
    /\ ed.buffer.is_modified
    /\ ed.undo.pos > 0
    /\ handle_key(ed, Enter, Env0).should_quit
    /\ Bounded(handle_key(ed, Enter, Env0))

\* the Confirm dialog m with the selection at sel
Reselected(m, sel) == ModeConfirm(m.title, m.message, m.options, sel)

\* C19: in Confirm mode, after any sequence of Up and Down presses, selected
\* is within [0, len(options) - 1]; Up at index 0 and Down at the last index
\* leave it unchanged, any other Up or Down moves it by one, and the mode
\* stays Confirm with the same title, message and options.
C19_ConfirmSelection ==
    (Running /\ ed.mode.tag = "Confirm") =>
        LET m == ed.mode
            last == Len(m.options) - 1
            up == handle_key(ed, KeyNamed("Up"), Env0)
            down == handle_key(ed, KeyNamed("Down"), Env0)
        IN  /\ m.selected >= 0 /\ m.selected <= last
            /\ up.mode = Reselected(m, IF m.selected = 0 THEN 0 ELSE m.selected - 1)
            /\ down.mode =
                   Reselected(m, IF m.selected = last THEN last ELSE m.selected + 1)
            /\ up.pending_action = None /\ down.pending_action = None
            /\ ~up.should_quit /\ ~down.should_quit

\* the selection was moved to the last option, where Down is pressed again
C19_Witness ==
    /\ Running
    /\ ed.mode.tag = "Confirm"
    /\ ed.mode.selected = Len(ed.mode.options) - 1
    /\ ed.mode.selected > 0
    /\ handle_key(ed, KeyNamed("Down"), Env0) = ed

\* the 1-based line numbers typed into the GoToLine dialog, one digit each
GoLines == 1..(MaxLen + 1)
DigitKey(n) == KeyChar(<<Ascii.one + n - 1>>)

\* C20: in GoToLine mode, typing the digits of n and pressing Enter moves
\* the cursor to line n - 1, clamped to the document's lines, and returns
\* to Normal with the document as it was; Enter with nothing typed leaves
\* the cursor unchanged.
C20_GoToLine ==
    (Running /\ ed.mode.tag = "GoToLine") =>
        /\ LET r == handle_key(ed, Enter, Env0)
           IN  /\ r.mode = ModeNormal
               /\ r.cursor_line = ed.cursor_line
               /\ r.cursor_col = ed.cursor_col
        /\ \A n \in GoLines :
               LET r == PressAll(ed, <<DigitKey(n), Enter>>)
               IN  /\ r.mode = ModeNormal
                   /\ r.cursor_line = Min(n - 1, BufNumLines(ed.buffer) - 1)
                   /\ Doc(r) = Doc(ed)

\* keys with no transition listed for Help or GoToLine mode
UnlistedKeys == {DigitKey(1), KeyNamed("Up"), KeyNamed("Down"), KeyCtrl(Ascii.a)}

\* C21: a key with no listed transition in the active mode changes nothing:
\* in Help mode any key other than Esc or Ctrl+H leaves the mode Help, in
\* GoToLine mode any key other than Enter or Esc leaves the mode GoToLine,
\* and the rest of the editor is as it was.
C21_UnlistedKeyIgnored ==
    (Running /\ ed.mode.tag \in {"Help", "GoToLine"}) =>
        \A k \in UnlistedKeys :
            LET r == handle_key(ed, k, Env0)
            IN  /\ r.mode = ed.mode
                /\ r = ed

SetMin(S) == CHOOSE x \in S : \A y \in S : x <= y
SetMax(S) == CHOOSE x \in S : \A y \in S : y <= x
\* the offsets at which q occurs in s
AllOcc(s, q) == {i \in 0..(Len(s) - Len(q)) : Slice(s, i, i + Len(q)) = q}
\* the offset at which line l of s starts, and the <<line, col>> of an offset
LineStart(s, l) ==
    IF l = 0 THEN 0
    ELSE SetMin({i \in 1..Len(s) : s[i] = NL /\ CountNL(Take(s, i)) = l})
RefLineCol(s, off) ==
    LET l == CountNL(Take(s, off)) IN <<l, off - LineStart(s, l)>>

CtrlF == KeyCtrl(Ascii.f)
SearchQueries == {<<LetterA>>}

\* C22: a search started with the cursor on the last occurrence of the
\* query wraps past the end of the document and lands on the first
\* occurrence.
C22_SearchWraps ==
    (Running /\ ed.mode = ModeNormal /\ CursorInRange(ed)) =>
        \A q \in SearchQueries :
            LET s == Doc(ed)
                occ == AllOcc(s, q)
                at == LineStart(s, ed.cursor_line) + ed.cursor_col
            IN  (Cardinality(occ) >= 2 /\ at = SetMax(occ)) =>
                    LET r == PressAll(ed, <<CtrlF>> \o Typing(q) \o <<Enter>>)
                    IN  /\ r.mode = ModeNormal
                        /\ <<r.cursor_line, r.cursor_col>> =
                               RefLineCol(s, SetMin(occ))

\* what C23 requires of find(query, line, col) on the content s
RefFind(s, query, line, col) ==
    LET occ == AllOcc(s, query)
        from == LineStart(s, line) + col
        later == {i \in occ : i >= from}
    IN  IF query = <<>> \/ occ = {} THEN FindNone
        ELSE FindHit(RefLineCol(s, IF later # {} THEN SetMin(later)
                                   ELSE SetMin(occ)))

FindQueries == BufPatterns \cup {<<LetterA, NL>>, <<NL, LetterA>>}

\* C23: find returns None for an empty query or one that occurs nowhere;
\* otherwise the (line, col) of the first occurrence at or after the offset
\* of (from_line, from_col), or failing that of the first occurrence in the
\* document; the line returned is below num_lines.
C23_Find ==
    buf_op \in Mutators \cup {"new", "for_new_file", "from_file"} =>
        LET s == Content(buf.text)
            lines == SplitLines(s)
        IN  \A query \in FindQueries, line \in 0..(Len(lines) - 1) :
                \A col \in 0..Len(lines[line + 1]) :
                    LET f == find(buf, query, line, col)
                    IN  /\ f = RefFind(s, query, line, col)
                        /\ f.found => f.line < BufNumLines(buf)

\* s with the occurrence of q at offset i replaced by to
ReplacedAt(s, i, q, to) == Take(s, i) \o to \o Drop(s, i + Len(q))

\* the documents a single replacement of q by to may leave: one occurrence
\* replaced, or s itself when q does not occur; with or without a closing
\* terminator added
SingleReplaced(s, q, to) ==
    LET occ == AllOcc(s, q)
        res == IF occ = {} THEN {s} ELSE {ReplacedAt(s, i, q, to) : i \in occ}
    IN  res \cup {EndWithNL(x) : x \in res}

\* C24: in Replace mode with confirmed set, Enter emits ReplaceAll only if
\* "all" was toggled; otherwise it replaces exactly one occurrence of the
\* search text at once, the other occurrences remaining, clears the edit
\* log, and exits to Normal.
C24_ConfirmedEnter ==
    (Running /\ ed.mode.tag = "Replace" /\ ed.mode.confirmed) =>
        LET e1 == mode_step(ed, Enter, Env0)
            r == handle_key(ed, Enter, Env0)
        IN  IF ed.mode.all
            THEN e1.pending_action =
                     Some(ActReplaceAll(ed.mode.search, ed.mode.replace))
            ELSE /\ e1.pending_action = None
                 /\ r.mode = ModeNormal
                 /\ r.undo = UndoNew
                 /\ ed.mode.search # <<>> =>
                        Doc(r) \in SingleReplaced(Doc(ed), ed.mode.search,
                                                  ed.mode.replace)

\* C25: in Replace mode with confirmed unset, Enter only sets confirmed: the
\* mode stays Replace with the same search and replace fields, no pending
\* action is emitted, and the document and the edit log are unchanged.
C25_FirstEnter ==
    (Running /\ ed.mode.tag = "Replace" /\ ~ed.mode.confirmed) =>
        LET e1 == mode_step(ed, Enter, Env0)
            r == handle_key(ed, Enter, Env0)
        IN  /\ e1.pending_action = None
            /\ r.mode = [ed.mode EXCEPT !.confirmed = TRUE]
            /\ r.buffer = ed.buffer
            /\ r.undo = ed.undo
            /\ r = [ed EXCEPT !.mode.confirmed = TRUE]

\* a search text was typed into the dialog over an edited document
C25_Witness ==
    /\ Running
    /\ ed.mode.tag = "Replace"
    /\ ~ed.mode.confirmed
    /\ ed.mode.search # <<>>
    /\ ed.undo.pos > 0
    /\ handle_key(ed, Enter, Env0).mode.confirmed
    /\ Bounded(handle_key(ed, Enter, Env0))

\* C26: save and save_as write the content with exactly one trailing line
\* terminator removed: for content c ending in a terminator, the bytes
\* written are c without its final byte.
C26_SaveStripsOne ==
    LET c == Content(buf.text)
    IN  (buf_op # "idle" /\ c # <<>> /\ c[Len(c)] = NL) =>
            save_content(buf) = Take(c, Len(c) - 1)

\* the keys pressed while a dialog may be open
ModeKeys ==
    {DigitKey(1), Enter, Esc, KeyNamed("Up"), KeyNamed("Down"), CtrlQ, CtrlF,
     CtrlZ, CtrlY, KeyCtrl(Ascii.s), KeyCtrl(Ascii.backslash),
     KeyCtrl(Ascii.g), KeyCtrl(Ascii.h), KeyCtrl(Ascii.a)}

\* the action a, set by the mode step that gave e1, has been executed once
\* in r: the mode is the one the mode step left, and the action's effect is
\* there
ExecutedOnce(e1, a, r) ==
    /\ r.mode = e1.mode
    /\ r.cursor_line = e1.cursor_line /\ r.cursor_col = e1.cursor_col
    /\ IF a.tag = "SaveAndQuit"
       THEN r.should_quit /\ r.buffer = save(e1.buffer, TRUE)
       ELSE IF a.tag = "QuitWithoutSave"
       THEN r.should_quit /\ Doc(r) = Doc(e1) /\ r.undo = e1.undo
       ELSE IF a.tag = "SaveAs"
       THEN /\ r.buffer.path = Some(a.filename)
            /\ Doc(r) = Doc(e1)
            /\ r.should_quit = e1.quit_after_save
       ELSE /\ Doc(r) = EndWithNL(RefReplaceAll(Doc(e1), a.search, a.replace))
            /\ r.undo = UndoNew
            /\ ~r.should_quit

\* C27: the pending-action slot is empty in every state between key events;
\* a key event's mode step sets at most one pending action, which is
\* executed once after the mode transition, and a key event whose mode step
\* sets none executes none.
C27_PendingAction ==
    /\ ed.pending_action = None
    /\ Running =>
           \A k \in ModeKeys :
               LET e1 == mode_step(ed, k, Env0)
                   r == handle_key(ed, k, Env0)
               IN  (~e1.crashed /\ ~e1.ovf) =>
                       /\ r.pending_action = None
                       /\ IF e1.pending_action = None THEN r = e1
                          ELSE ExecutedOnce(e1, e1.pending_action[1], r)

\* Enter on "Yes" over a modified document: SaveAndQuit is set and executed
C27_Witness ==
    /\ ConfirmOn("Yes")
    /\ ed.buffer.is_modified
    /\ ed.pending_action = None
    /\ mode_step(ed, Enter, Env0).pending_action = Some(ActSaveAndQuit)
    /\ handle_key(ed, Enter, Env0).pending_action = None
    /\ handle_key(ed, Enter, Env0).should_quit

CtrlO == KeyCtrl(Ascii.o)
\* Ctrl+O finding the file content o (None: no candidate loads)
OpenEnv(o) == [checked |-> FALSE, write_ok |-> TRUE, open |-> o]

\* C28: when Ctrl+O loads a file, the document is replaced by it, the
\* cursor becomes (0,0), the scroll offset 0 and the edit log empty with
\* pos = 0; when no candidate file loads, document, cursor, scroll offset
\* and edit log are unchanged.
C28_OpenFile ==
    (Running /\ ed.mode = ModeNormal) =>
        /\ \A c \in OpenFiles :
               LET r == handle_key(ed, CtrlO, OpenEnv(Some(c)))
               IN  /\ Doc(r) = EndWithNL(c)
                   /\ r.cursor_line = 0 /\ r.cursor_col = 0
                   /\ r.scroll_offset = 0
                   /\ r.undo = UndoNew
        /\ LET r == handle_key(ed, CtrlO, OpenEnv(None))
           IN  /\ r.buffer = ed.buffer
               /\ r.cursor_line = ed.cursor_line
               /\ r.cursor_col = ed.cursor_col
               /\ r.scroll_offset = ed.scroll_offset
               /\ r.undo = ed.undo

\* C29: after every Normal-mode key event, with a viewport of at least one
\* row, the cursor row is inside the visible window and the window does not
\* scroll past the last line.
C29_CursorVisible ==
    LET view_height == SatSub(ed.screen_height, 3)
    IN  (handled /\ ~ed.crashed /\ view_height >= 1) =>
            /\ ed.scroll_offset <= ed.cursor_line
            /\ ed.cursor_line < ed.scroll_offset + view_height
            /\ ed.scroll_offset <= SatSub(BufNumLines(ed.buffer), view_height)

\* the window has scrolled down to follow the cursor
C29_Witness ==
    /\ handled
    /\ ~ed.crashed
    /\ ed.scroll_offset > 0
    /\ ed.cursor_line = ed.scroll_offset + SatSub(ed.screen_height, 3) - 1

\* the lines of a document with line l split at column c
SplitAt(lines, l, c) ==
    Take(lines, l) \o <<Take(lines[l + 1], c), Drop(lines[l + 1], c)>>
        \o Drop(lines, l + 1)

\* C30: in Normal mode with auto-indent off, Enter at cursor (line, col)
\* splits that line at the column: the first col bytes stay as line `line`,
\* the rest becomes line `line + 1`, every other line is unchanged and in
\* order, and the cursor is at (line + 1, 0).
C30_EnterSplits ==
    (Running /\ ed.mode = ModeNormal /\ ~ed.settings.auto_indent
             /\ CursorInRange(ed)) =>
        LET r == handle_key(ed, Enter, Env0)
        IN  ~r.crashed =>
                /\ SplitLines(Doc(r)) =
                       SplitAt(SplitLines(Doc(ed)), ed.cursor_line, ed.cursor_col)
                /\ r.cursor_line = ed.cursor_line + 1
                /\ r.cursor_col = 0

\* C31: no sequence of key presses drives the controller into a crash: no
\* key event performs an unsigned subtraction below zero (a panic in a build
\* with overflow checks, a wrapped value in one without) or an out-of-range
\* index or slice.
C31_NoCrash == ~ed.crashed /\ ~ed.wrapped

\* the key k makes the editor e call Buffer::save or Buffer::save_as: Ctrl+S
\* on a document with a path, or a mode step that sets SaveAndQuit or SaveAs
SaveEvent(e, k) ==
    \/ e.mode = ModeNormal /\ k = KeyCtrl(Ascii.s) /\ e.buffer.path # None
    \/ LET e1 == mode_step(e, k, Env0)
       IN  /\ e1.pending_action # None
           /\ e1.pending_action[1].tag \in {"SaveAndQuit", "SaveAs"}

\* the key k makes the editor e quit without saving
DiscardEvent(e, k) ==
    mode_step(e, k, Env0).pending_action = Some(ActQuitWithoutSave)

\* the key event k, its write succeeding or not as w says
KeyWithWrite(e, k, w) ==
    handle_key(e, k, [checked |-> FALSE, write_ok |-> w, open |-> None])

\* a save whose write fails leaves the whole document record as it was
FailedSaveKeeps ==
    \A k \in ModeKeys :
        SaveEvent(ed, k) => KeyWithWrite(ed, k, FALSE).buffer = ed.buffer

RefRange(g, start, end) ==
    LET s == Content(g)
        a == Min(start, Len(s))
        b == Min(end, Len(s))
    IN  IF a >= b THEN <<>> ELSE Slice(s, a, b)

\* get_range agrees with the logical document on every range of g
RangeExact(g) ==
    \A start \in 0..MaxArg, end \in 0..MaxArg :
        get_range(g, start, end) = RefRange(g, start, end)

\* C33: for every gap position and all start, end, get_range(start, end)
\* returns exactly the bytes of the logical document in
\* [min(start, len), min(end, len)), empty when start >= end, ranges that
\* begin before the gap and end after it included.
C33_GetRange == buf_op # "idle" => RangeExact(buf.text)

\* C34: move_gap(pos) never changes the logical document: before ++ after
\* and the total length are the same after the call, and afterwards
\* len(before) = min(pos, len).
C34_MoveGapKeepsContent ==
    \A pos \in 0..MaxArg :
        LET m == move_gap(gap, pos)
        IN  /\ Content(m) = Content(gap)
            /\ GapLen(m) = GapLen(gap)
            /\ Len(m.before) = Min(pos, GapLen(gap))

\* the operation op describes the change of the document from s to s1
Records(op, s, s1) ==
    IF op.kind = "Insert"
    THEN /\ op.pos <= Len(s)
         /\ s1 = RefInsert(s, op.pos, op.text)
    ELSE /\ op.pos + Len(op.text) <= Len(s)
         /\ Slice(s, op.pos, op.pos + Len(op.text)) = op.text
         /\ s1 = RefDelete(s, op.pos, Len(op.text))

\* C35: every operation a Normal-mode key pushes to the edit log records
\* the mutation that was applied: an Insert's pos and text are the offset
\* and the bytes inserted, a Delete's pos and text are the offset of the
\* first removed byte and the bytes removed.
C35_LogRecordsMutation ==
    (Running /\ ed.mode = ModeNormal) =>
        \A k \in ContentKeys :
            LET r == handle_key(ed, k, Env0)
            IN  (~r.crashed /\ OnePush(ed.undo, r.undo)) =>
                    Records(r.undo.ops[r.undo.pos], Doc(ed), Doc(r))

CtrlS == KeyCtrl(Ascii.s)

\* C36: the quit-after-save flag does not outlive the dialog that set it:
\* after the Save As dialog opened by Ctrl+Q is cancelled with Esc, a Save
\* As started by Ctrl+S and confirmed with Enter saves the document and
\* does not end the editor.
C36_QuitFlagDiscarded ==
    (Running /\ ed.mode = ModeNormal /\ ed.buffer.path = None) =>
        LET cancelled == PressAll(ed, <<CtrlQ, Esc>>)
            r == PressAll(cancelled, <<CtrlS, Enter>>)
        IN  /\ cancelled.mode = ModeNormal
            /\ ~cancelled.should_quit
            /\ r.buffer.path # None
            /\ ~r.buffer.is_modified
            /\ ~r.should_quit

\* printable characters of one byte and of two bytes
WideChars == {<<LetterA>>, EAcute}
\* the byte offset the cursor of e names
CursorOffset(e) == get_cursor_pos(e.buffer, e.cursor_line, e.cursor_col)

\* C37: after a printable character is typed in Normal mode, the cursor's
\* byte offset is the insertion offset plus the byte length of the
\* character, for characters of one byte and of several bytes alike, so
\* that a second typed character lands right after the first.
C37_CursorAfterTyped ==
    (Running /\ ed.mode = ModeNormal /\ CursorInRange(ed)) =>
        \A c \in WideChars :
            LET r == handle_key(ed, KeyChar(c), Env0)
                r2 == handle_key(r, KeyChar(<<LetterB>>), Env0)
            IN  (~r.crashed /\ ~r2.crashed) =>
                    /\ CursorOffset(r) = CursorOffset(ed) + Len(c)
                    /\ r2.undo.ops[r2.undo.pos].pos = CursorOffset(ed) + Len(c)

CtrlK == KeyCtrl(Ascii.k)

\* C38: Ctrl+K on a document with more than one line removes exactly the
\* cursor's line together with its terminator: every other line keeps its
\* content and order, the line count decreases by exactly 1, and the
\* document still ends with a terminator.
C38_CtrlKRemovesLine ==
    LET s == Doc(ed)
        lines == SplitLines(s)
    IN  (Running /\ ed.mode = ModeNormal /\ CursorInRange(ed)
                 /\ s # <<>> /\ s[Len(s)] = NL
                 /\ CountNL(s) >= 2 /\ ed.cursor_line < CountNL(s)) =>
            LET r == handle_key(ed, CtrlK, Env0)
            IN  ~r.crashed =>
                    /\ Doc(r) = RefDelete(s, LineStart(s, ed.cursor_line),
                                          Len(lines[ed.cursor_line + 1]) + 1)
                    /\ CountNL(Doc(r)) = CountNL(s) - 1
                    /\ Doc(r)[Len(Doc(r))] = NL

Backspace == KeyNamed("Backspace")
\* the keys pressed in Search mode
SearchKeys ==
    {DigitKey(1), KeyChar(<<LetterA>>), Backspace, Enter, Esc, KeyNamed("Up"),
     KeyNamed("Tab"), KeyCtrl(Ascii.c), KeyCtrl(Ascii.r), CtrlZ, CtrlQ}

\* C39: no key handled in Search mode changes the document, the modified
\* flag or the edit log: a printable character appends to the query and
\* may move the cursor to a match, Backspace removes the last query
\* character, and Enter and Esc exit to Normal.
C39_SearchFrame ==
    (Running /\ ed.mode.tag = "Search") =>
        /\ \A k \in SearchKeys :
               LET r == handle_key(ed, k, Env0)
               IN  /\ r.buffer = ed.buffer
                   /\ r.undo = ed.undo
                   /\ r.pending_action = None
                   /\ ~r.should_quit
                   /\ ~r.crashed =>
                          r.mode.tag = IF k \in {Enter, Esc} THEN "Normal"
                                       ELSE "Search"
        /\ \A c \in {<<Ascii.one>>, <<LetterA>>} :
               handle_key(ed, KeyChar(c), Env0).mode =
                   [ed.mode EXCEPT !.query = @ \o c]
        /\ LET r == handle_key(ed, Backspace, Env0)
           IN  /\ r.mode = [ed.mode EXCEPT !.query = Take(@, SatSub(Len(@), 1))]
               /\ r.cursor_line = ed.cursor_line
               /\ r.cursor_col = ed.cursor_col

\* a query is typed over an edited document, and Enter jumps to its match
C39_Witness ==
    /\ Running
    /\ ed.mode.tag = "Search"
    /\ ed.mode.query # <<>>
    /\ ed.buffer.is_modified
    /\ ed.undo.pos > 0
    /\ AllOcc(Doc(ed), ed.mode.query) # {}
    /\ handle_key(ed, Enter, Env0).mode = ModeNormal
    /\ Bounded(handle_key(ed, Enter, Env0))

=============================================================================
